---------------------------- MODULE Spec2Model ----------------------------
(***************************************************************************)
(* A model of the context engine of the course repository: the dependency *)
(* graph (src/context/graph.ts), the PageRank-style ranker                 *)
(* (src/context/ranker.ts), the semantic index (src/context/embeddings.ts) *)
(* and the context assembler (src/context/assembler.ts), as they are       *)
(* listed in src/unnamed/part_001.                                         *)
(*                                                                         *)
(* Strings are sequences of one-character strings, so that length,        *)
(* substring search, lower-casing and concatenation are computed.         *)
(* Numbers of the ranker are exact rationals <<num, den>> (den > 0, in     *)
(* lowest terms): the model decides the claims on the real-number value of *)
(* the scores, not on IEEE rounding.                                       *)
(***************************************************************************)
EXTENDS Integers, Sequences, FiniteSets, TLC

VARIABLES
    \* ---- rankFiles (ranker.ts)
    graph,        \* FileGraph {nodes, edges, reverseEdges}
    seedFiles,    \* the seedFiles argument (an array: duplicates allowed)
    damping,      \* options.damping ?? 0.85
    iterations,   \* options.iterations ?? 20
    scores,       \* the scores Map
    seedIdx,      \* position of the boost loop in seedFiles
    i,            \* pass counter of the iteration loop
    \* ---- buildDependencyGraph (graph.ts)
    files,        \* the files argument (an array of project-relative paths)
    importPaths,  \* per file, the import specifiers its code holds, in order
    unreadable,   \* the files whose fs.readFile rejects
    fileIdx,      \* position of the loop over files
    \* ---- CodeIndex (embeddings.ts)
    chunks,       \* this.chunks
    disk,         \* the index file: <<>> when absent, <<data>> when written
    provider,     \* the embedding provider: the vector it answers per text
    embedCalls,   \* number of client.embeddings.create calls made so far
    results,      \* what the last search returned
    savedChunks,  \* history: this.chunks when save last ran
    lastOp,       \* history: the last CodeIndex method that returned
    ops,          \* number of CodeIndex methods run
    \* ---- assembleContext (assembler.ts)
    projectRoot,  \* the project on disk: its files, in glob order
    task,         \* the task argument
    config,       \* the ContextConfig argument
    parts,        \* the parts array, each part with the phase that pushed it
                  \* and the file and line range it shows
    totalTokens,  \* the running total the budget checks use
    mapText,      \* the truncated repo map
    relevantFiles,  \* what selectContextForTask returned
    searchResults,  \* what index.search returned
    partIdx,      \* position of the loop over relevantFiles or searchResults
    \* ---- searchCode (embeddings.ts) called on its own
    queryText,    \* the query argument
    limit,        \* the topK argument
    scoredList,   \* the scored array: each chunk with its similarity
    \* ---- selectWithinBudget (ranker.ts) called on its own; its selected
    \* array, totalTokens and loop position are relevantFiles, totalTokens
    \* and partIdx
    rankedList,   \* ranked: what getTopFiles(scores, 100) returned
    tokenLimit,   \* the maxTokens argument
    newScores,    \* rankFiles: the Map filled during the pass that is running
    visited,      \* rankFiles: the nodes the inner loop has gone through
    passes,       \* rankFiles: the passes completed so far
    codeText,     \* chunkCode: the code argument
    maxChunkChars,\* chunkCode: the chunkSize argument
    chunkList,    \* chunkCode: the chunks returned
    toEmbed,      \* embedChunks: the chunks argument
    embedded,     \* embedChunks: the chunks pushed so far
    batchStart,   \* embedChunks: i, the index where the next batch starts
    requests,     \* the input of every embeddings.create call made, in order
    responses,    \* the vectors every call returned (response.data), in order
    maxRetries,   \* chatWithRetry: options?.maxRetries ?? 3
    attempt,      \* chatWithRetry: the loop counter
    outcomes,     \* how every chat call made so far ended, in order
    sleeps,       \* the waits (ms) made so far, in order
    thrown,       \* what chatWithRetry threw: <<>> (nothing) or <<error>>
    pc            \* position in the running operation

rankVars == <<seedFiles, damping, iterations, scores, seedIdx, i>>
buildVars == <<files, importPaths, unreadable, fileIdx>>
indexVars == <<chunks, disk, provider, embedCalls, results, savedChunks, lastOp, ops>>
asmVars == <<projectRoot, task, config, parts, totalTokens, mapText,
             relevantFiles, searchResults, partIdx>>
searchVars == <<queryText, limit, scoredList>>
selectVars == <<rankedList, tokenLimit>>
passVars == <<newScores, visited, passes>>
chunkVars == <<codeText, maxChunkChars, chunkList>>
embedVars == <<toEmbed, embedded, batchStart, requests, responses>>
retryVars == <<maxRetries, attempt, outcomes, sleeps, thrown>>
vars == <<retryVars, embedVars, chunkVars, passVars, selectVars, searchVars, graph, rankVars, buildVars, indexVars, asmVars, pc>>

--------------------------------------------------------------------------
(* Bounds of the model.                                                    *)
MaxIter == 2         \* passes tried on arbitrary (possibly cyclic) graphs
MaxImports == 1      \* import statements per file
MaxOps == 4          \* CodeIndex methods run in a row
MaxStored == 3       \* chunks stored in the index searchCode is called on
MaxFiles == 101      \* files of the largest project selectWithinBudget walks
MaxBudget == 90      \* largest config.maxTotalTokens tried
BudgetStep == 2      \* distance between the values of maxTotalTokens tried

--------------------------------------------------------------------------
(* Exact rational arithmetic for JavaScript numbers.                       *)

Abs(x) == IF x < 0 THEN -x ELSE x

RECURSIVE GCD(_, _)
GCD(a, b) == IF b = 0 THEN a ELSE GCD(b, a % b)

Gcd(a, b) == LET g == GCD(Abs(a), Abs(b)) IN IF g = 0 THEN 1 ELSE g

Rat(a, b) == LET g == Gcd(a, b) IN <<a \div g, b \div g>>

RZero == <<0, 1>>
ROne == <<1, 1>>

RAdd(x, y) ==
    LET g == Gcd(x[2], y[2])
    IN  Rat(x[1] * (y[2] \div g) + y[1] * (x[2] \div g), (x[2] \div g) * y[2])

RSub(x, y) == RAdd(x, <<-y[1], y[2]>>)

RMul(x, y) ==
    LET g1 == Gcd(x[1], y[2])
        g2 == Gcd(y[1], x[2])
    IN  <<(x[1] \div g1) * (y[1] \div g2), (x[2] \div g2) * (y[2] \div g1)>>

\* x / k for an integer k > 0
RDivInt(x, k) == RMul(x, <<1, k>>)

RLess(x, y) == RSub(x, y)[1] < 0
RLeq(x, y) == RSub(x, y)[1] <= 0

RECURSIVE RSumSet(_, _)
\* the sum of f[e] over the elements e of the finite set S
RSumSet(f, S) ==
    IF S = {} THEN RZero
    ELSE LET e == CHOOSE x \in S : TRUE
         IN  RAdd(f[e], RSumSet(f, S \ {e}))

--------------------------------------------------------------------------
(* Strings: sequences of one-character strings.                            *)

StartsWith(s, p) == Len(s) >= Len(p) /\ SubSeq(s, 1, Len(p)) = p

\* s.includes(p)
Includes(s, p) ==
    \E k \in 0..(Len(s) - Len(p)) : SubSeq(s, k + 1, k + Len(p)) = p

RECURSIVE SplitOn(_, _)
\* s.split(c) for a one-character separator c
SplitOn(s, c) ==
    IF \A k \in 1..Len(s) : s[k] # c THEN <<s>>
    ELSE LET k == CHOOSE j \in 1..Len(s) :
                      s[j] = c /\ \A m \in 1..(j - 1) : s[m] # c
         IN  <<SubSeq(s, 1, k - 1)>> \o SplitOn(SubSeq(s, k + 1, Len(s)), c)

RECURSIVE JoinWith(_, _)
\* parts.join(sep)
JoinWith(list, sep) ==
    IF list = <<>> THEN <<>>
    ELSE IF Len(list) = 1 THEN list[1]
    ELSE list[1] \o sep \o JoinWith(Tail(list), sep)

--------------------------------------------------------------------------
(* Paths and import specifiers.                                            *)
A_ts == <<"a", ".", "t", "s">>
B_ts == <<"b", ".", "t", "s">>
C_ts == <<"c", ".", "t", "s">>
D_ts == <<"d", ".", "t", "s">>
X_js == <<"x", ".", "j", "s">>
LibIndex_ts == <<"l", "i", "b", "/", "i", "n", "d", "e", "x", ".", "t", "s">>
Ghost_ts == <<"g", "h", "o", "s", "t", ".", "t", "s">>   \* never a project file

ImportB == <<".", "/", "b">>            \* './b'
ImportBts == <<".", "/", "b", ".", "t", "s">>   \* './b.ts'
ImportX == <<".", "/", "x">>            \* './x'
ImportLib == <<".", "/", "l", "i", "b">>     \* './lib'
ImportReact == <<"r", "e", "a", "c", "t">>   \* 'react'

Dot == <<".">>
Slash == <<"/">>

\* path.normalize on the segments of a relative path: '.' and empty segments
\* dropped, 'seg/..' cancelled, leading '..' kept
RECURSIVE NormalizeSegs(_, _)
NormalizeSegs(out, segs) ==
    IF segs = <<>> THEN out
    ELSE LET seg == Head(segs)
             next ==
                IF seg = <<>> \/ seg = Dot THEN out
                ELSE IF seg = <<".", ".">> /\ out # <<>> /\ out[Len(out)] # <<".", ".">>
                     THEN SubSeq(out, 1, Len(out) - 1)
                     ELSE Append(out, seg)
         IN  NormalizeSegs(next, Tail(segs))

\* path.join(a, b)
PathJoin(a, b) ==
    LET segs == NormalizeSegs(<<>>, SplitOn(a \o Slash \o b, "/"))
    IN  IF segs = <<>> THEN Dot ELSE JoinWith(segs, Slash)

\* path.dirname(p) of a relative path
Dirname(p) ==
    LET segs == SplitOn(p, "/")
    IN  IF Len(segs) = 1 THEN Dot
        ELSE JoinWith(SubSeq(segs, 1, Len(segs) - 1), Slash)

\* path.basename(p)
Basename(p) == LET segs == SplitOn(p, "/") IN segs[Len(segs)]

\* path.extname(p): from the last '.' of the basename, '' when there is none
\* or when the only one leads the basename
Extname(p) ==
    LET base == Basename(p)
        dots == {k \in 2..Len(base) : base[k] = "."}
    IN  IF dots = {} \/ base = <<".", ".">> THEN <<>>
        ELSE LET k == CHOOSE d \in dots : \A e \in dots : e <= d
             IN  SubSeq(base, k, Len(base))

--------------------------------------------------------------------------
(* graph.ts: resolveImport, extractImports, buildDependencyGraph           *)

\* the suffixes listed by resolveImport
ImportExtensions ==
    <<<<".", "t", "s">>, <<".", "t", "s", "x">>, <<".", "j", "s">>, <<".", "j", "s", "x">>,
      <<"/", "i", "n", "d", "e", "x", ".", "t", "s">>,
      <<"/", "i", "n", "d", "e", "x", ".", "j", "s">>>>

\* resolveImport with every listed suffix tried against the known files,
\* the first existing candidate returned (null modelled as <<>>)
ResolveAgainstFiles(fromFile, importPath, known) ==
    LET bare == PathJoin(Dirname(fromFile), importPath)
        candidates ==
            <<bare>> \o [k \in 1..Len(ImportExtensions) |-> bare \o ImportExtensions[k]]
        hits == {k \in 1..Len(candidates) : candidates[k] \in known}
    IN  IF hits = {} THEN <<>>
        ELSE candidates[CHOOSE k \in hits : \A m \in hits : k <= m]

\* resolveImport(fromFile, importPath): the joined path, and when it has no
\* extension the first listed suffix appended (the loop breaks on its first
\* round; nothing is checked against the file system)
resolveImport(fromFile, importPath) ==
    LET resolved == PathJoin(Dirname(fromFile), importPath)
    IN  IF Extname(resolved) = <<>>
        THEN resolved \o ImportExtensions[1]
        ELSE resolved

\* extractImports(code, currentFile), given the specifiers the import regex
\* matches in the code: a specifier not starting with '.' is skipped, every
\* other one is resolved and added when the result is a non-empty string
extractImports(specifiers, currentFile) ==
    {resolveImport(currentFile, specifiers[k]) :
        k \in {j \in 1..Len(specifiers) : StartsWith(specifiers[j], Dot)}} \ {<<>>}

\* reverseEdges after the inner loop of buildDependencyGraph has run over the
\* imports of one file
AddReverseEdges(rev, file, imports) ==
    [t \in DOMAIN rev \cup imports |->
        IF t \in imports
        THEN (IF t \in DOMAIN rev THEN rev[t] ELSE {}) \cup {file}
        ELSE rev[t]]

\* The graph buildDependencyGraph returns once extractImports has given the
\* import set of every file: edges.set(file, imports) and, for each import,
\* reverseEdges[imp].add(file).  reverseEdges has a key only for an imported
\* path; nodes is exactly the file list.
GraphOf(fileSet, imports) ==
    [nodes |-> fileSet,
     edges |-> [f \in fileSet |-> imports[f]],
     reverseEdges |->
        [t \in UNION {imports[f] : f \in fileSet} |->
            {f \in fileSet : t \in imports[f]}]]

--------------------------------------------------------------------------
(* ranker.ts: rankFiles                                                    *)

DefaultDamping == <<17, 20>>      \* options?.damping ?? 0.85
DefaultIterations == 20           \* options?.iterations ?? 20
SeedBoost == <<1, 2>>             \* + 0.5

\* scores.set(node, 1 / n) for every node
InitScores(g) ==
    [node \in g.nodes |-> Rat(1, Cardinality(g.nodes))]

\* scores.set(seed, (scores.get(seed) ?? 0) + 0.5)
BoostSeed(sc, seed) ==
    IF seed \in DOMAIN sc
    THEN [sc EXCEPT ![seed] = RAdd(@, SeedBoost)]
    ELSE sc @@ (seed :> RAdd(RZero, SeedBoost))

RECURSIVE BoostSeeds(_, _)
BoostSeeds(sc, seeds) ==
    IF seeds = <<>> THEN sc
    ELSE BoostSeeds(BoostSeed(sc, Head(seeds)), Tail(seeds))

\* Importers with the direction mistaken: the files the node imports
ImportersFromEdges(g, node) ==
    IF node \in DOMAIN g.edges THEN g.edges[node] \cap g.nodes ELSE {}

\* graph.reverseEdges.get(node) ?? new Set()
Importers(g, node) ==
    IF node \in DOMAIN g.reverseEdges THEN g.reverseEdges[node] ELSE {}

\* damping * (importerScore / importerOutDegree)
Contribution(g, sc, d, importer) ==
    LET importerScore == IF importer \in DOMAIN sc THEN sc[importer] ELSE RZero
        importerOutDegree ==
            IF importer \in DOMAIN g.edges
            THEN Cardinality(g.edges[importer]) ELSE 1
    IN  RMul(d, RDivInt(importerScore, importerOutDegree))

\* the body of the inner loop: (1 - damping) / n plus every importer's share
NodeScore(g, sc, d, node) ==
    LET n == Cardinality(g.nodes)
        base == RDivInt(RSub(ROne, d), n)
        imps == Importers(g, node)
        share == [u \in imps |-> Contribution(g, sc, d, u)]
    IN  RAdd(base, RSumSet(share, imps))

\* a pass that leaves the score of a file nobody imports as it was
RankPassKeepingRoots(g, sc, d) ==
    [p \in DOMAIN sc |->
        IF p \in g.nodes /\ Importers(g, p) # {}
        THEN NodeScore(g, sc, d, p) ELSE sc[p]]

\* one pass: newScores is filled from scores, then copied over scores; an
\* entry of scores that is no graph node is left as it is
RankPassScores(g, sc, d) ==
    LET newMap == [node \in g.nodes |-> NodeScore(g, sc, d, node)]
    IN  [p \in DOMAIN sc |-> IF p \in g.nodes THEN newMap[p] ELSE sc[p]]

RECURSIVE RankIterate(_, _, _, _)
RankIterate(g, sc, d, k) ==
    IF k = 0 THEN sc ELSE RankIterate(g, RankPassScores(g, sc, d), d, k - 1)

\* rankFiles(graph, seedFiles, {damping, iterations})
rankFiles(g, seeds, d, iters) ==
    RankIterate(g, BoostSeeds(InitScores(g), seeds), d, iters)

--------------------------------------------------------------------------
(* The ranker as a state machine: one call of rankFiles, step by step.    *)

RankFileSets == {{A_ts}, {A_ts, B_ts}, {A_ts, B_ts, C_ts}}
Dampings == {<<0, 1>>, <<1, 2>>, DefaultDamping, <<1, 1>>}

\* the seedFiles arrays tried: none, one seed, a seed listed twice (the
\* array is not de-duplicated by rankFiles), a seed followed by a path that
\* is no graph node
SeedLists(nodeSet) ==
    {<<>>} \cup {<<s>> : s \in nodeSet \cup {Ghost_ts}}
           \cup {<<s, s>> : s \in nodeSet}
           \cup {<<s, Ghost_ts>> : s \in nodeSet}

\* A imports B, B imports C, D is isolated
ChainGraph ==
    GraphOf({A_ts, B_ts, C_ts, D_ts},
            (A_ts :> {B_ts}) @@ (B_ts :> {C_ts}) @@ (C_ts :> {}) @@ (D_ts :> {}))

\* any import relation over the nodeSet (self-imports and cycles included);
\* a.ts may also import a path that resolves to no project file
RankCallArbitrary ==
    \E nodeSet \in RankFileSets :
      \E local \in [nodeSet -> SUBSET nodeSet], external \in BOOLEAN :
        \E seeds \in SeedLists(nodeSet), d \in Dampings, k \in 0..MaxIter :
          /\ graph = GraphOf(nodeSet,
                [f \in nodeSet |-> IF external /\ f = A_ts
                                 THEN local[f] \cup {Ghost_ts} ELSE local[f]])
          /\ seedFiles = seeds
          /\ damping = d
          /\ iterations = k

\* the call with the default options on the chain project
RankCallDefault ==
    /\ graph = ChainGraph
    /\ seedFiles \in {<<>>, <<A_ts>>, <<A_ts, A_ts>>}
    /\ damping = DefaultDamping
    /\ iterations = DefaultIterations

\* the variables of CodeIndex while no index is in use
IndexIdle ==
    /\ chunks = <<>>
    /\ disk = <<>>
    /\ provider = <<>>
    /\ embedCalls = 0
    /\ results = <<>>
    /\ savedChunks = <<>>
    /\ lastOp = "none"
    /\ ops = 0

\* the variables of searchCode while no search of its own runs
SearchIdle ==
    /\ queryText = <<>>
    /\ limit = 0
    /\ scoredList = <<>>

\* the variables of selectWithinBudget while no call of its own runs
SelectIdle ==
    /\ rankedList = <<>>
    /\ tokenLimit = 0

\* the variables of a pass of rankFiles while no pass is followed node by node
PassIdle ==
    /\ newScores = <<>>
    /\ visited = {}
    /\ passes = 0

\* the variables of chunkCode while no call of its own runs
ChunkIdle ==
    /\ codeText = <<>>
    /\ maxChunkChars = 0
    /\ chunkList = <<>>

\* the variables of embedChunks while no call of its own runs
EmbedIdle ==
    /\ toEmbed = <<>>
    /\ embedded = <<>>
    /\ batchStart = 0
    /\ requests = <<>>
    /\ responses = <<>>

\* the variables of chatWithRetry while no call of its own runs
RetryIdle ==
    /\ maxRetries = 0
    /\ attempt = 0
    /\ outcomes = <<>>
    /\ sleeps = <<>>
    /\ thrown = <<>>

\* the variables of assembleContext while no assembly runs
AsmIdle ==
    /\ projectRoot = <<>>
    /\ task = <<>>
    /\ config = <<>>
    /\ parts = <<>>
    /\ totalTokens = 0
    /\ mapText = <<>>
    /\ relevantFiles = <<>>
    /\ searchResults = <<>>
    /\ partIdx = 0

\* the variables of buildDependencyGraph while no build runs
BuildIdle ==
    /\ files = <<>>
    /\ importPaths = <<>>
    /\ unreadable = {}
    /\ fileIdx = 0

InitRank ==
    /\ RankCallArbitrary \/ RankCallDefault
    /\ scores = <<>>
    /\ seedIdx = 0
    /\ i = 0
    /\ pc = "rank_call"
    /\ BuildIdle
    /\ IndexIdle
    /\ AsmIdle
    /\ RetryIdle
    /\ EmbedIdle
    /\ ChunkIdle
    /\ PassIdle
    /\ SelectIdle
    /\ SearchIdle

\* line 1931-1934
RankInitScores ==
    /\ pc = "rank_call"
    /\ scores' = InitScores(graph)
    /\ seedIdx' = 1
    /\ pc' = "rank_boost"
    /\ UNCHANGED <<retryVars, embedVars, chunkVars, passVars, selectVars, searchVars, graph, seedFiles, damping, iterations, i, buildVars, indexVars, asmVars>>

\* line 1937-1939, one seed per step
RankBoostSeed ==
    /\ pc = "rank_boost"
    /\ seedIdx <= Len(seedFiles)
    /\ scores' = BoostSeed(scores, seedFiles[seedIdx])
    /\ seedIdx' = seedIdx + 1
    /\ UNCHANGED <<retryVars, embedVars, chunkVars, passVars, selectVars, searchVars, graph, seedFiles, damping, iterations, i, pc, buildVars, indexVars, asmVars>>

RankBoostDone ==
    /\ pc = "rank_boost"
    /\ seedIdx > Len(seedFiles)
    /\ i' = 0
    /\ pc' = "rank_iter"
    /\ UNCHANGED <<retryVars, embedVars, chunkVars, passVars, selectVars, searchVars, graph, seedFiles, damping, iterations, scores, seedIdx, buildVars, indexVars, asmVars>>

\* line 1942-1963, one pass per step
RankPass ==
    /\ pc = "rank_iter"
    /\ i < iterations
    /\ scores' = RankPassScores(graph, scores, damping)
    /\ i' = i + 1
    /\ UNCHANGED <<retryVars, embedVars, chunkVars, passVars, selectVars, searchVars, graph, seedFiles, damping, iterations, seedIdx, pc, buildVars, indexVars, asmVars>>

\* line 1965
RankReturn ==
    /\ pc = "rank_iter"
    /\ i >= iterations
    /\ pc' = "rank_done"
    /\ UNCHANGED <<retryVars, embedVars, chunkVars, passVars, selectVars, searchVars, graph, rankVars, buildVars, indexVars, asmVars>>

NextRank ==
    \/ RankInitScores
    \/ RankBoostSeed
    \/ RankBoostDone
    \/ RankPass
    \/ RankReturn

SpecRank == InitRank /\ [][NextRank]_vars

--------------------------------------------------------------------------
(* buildDependencyGraph as a state machine: one call, one file per step.  *)

FileLists ==
    {<<A_ts>>, <<A_ts, B_ts>>, <<A_ts, B_ts, X_js>>, <<A_ts, B_ts, LibIndex_ts>>}
Specifiers == {ImportB, ImportBts, ImportX, ImportLib, ImportReact}

RECURSIVE SeqsUpTo(_, _)
\* the sequences over S of length at most k
SeqsUpTo(S, k) ==
    IF k = 0 THEN {<<>>}
    ELSE LET shorter == SeqsUpTo(S, k - 1)
         IN  shorter \cup {Append(q, x) : q \in shorter, x \in S}

Range(q) == {q[k] : k \in 1..Len(q)}

\* the variables of rankFiles while no ranking runs
RankIdle ==
    /\ seedFiles = <<>>
    /\ damping = DefaultDamping
    /\ iterations = 0
    /\ scores = <<>>
    /\ seedIdx = 0
    /\ i = 0

InitBuild ==
    /\ files \in FileLists
    /\ importPaths \in [Range(files) -> SeqsUpTo(Specifiers, MaxImports)]
    /\ unreadable \in {{}} \cup {{f} : f \in Range(files)}
    /\ fileIdx = 0
    /\ graph = [nodes |-> {}, edges |-> <<>>, reverseEdges |-> <<>>]
    /\ pc = "build_call"
    /\ RankIdle
    /\ IndexIdle
    /\ AsmIdle
    /\ RetryIdle
    /\ EmbedIdle
    /\ ChunkIdle
    /\ PassIdle
    /\ SelectIdle
    /\ SearchIdle

\* line 1846-1850
BuildCreateGraph ==
    /\ pc = "build_call"
    /\ graph' = [nodes |-> Range(files), edges |-> <<>>, reverseEdges |-> <<>>]
    /\ fileIdx' = 1
    /\ pc' = "build_loop"
    /\ UNCHANGED <<retryVars, embedVars, chunkVars, passVars, selectVars, searchVars, rankVars, indexVars, files, importPaths, unreadable, asmVars>>

\* line 1852-1865 for one file whose read succeeds
BuildFile ==
    /\ pc = "build_loop"
    /\ fileIdx <= Len(files)
    /\ files[fileIdx] \notin unreadable
    /\ LET file == files[fileIdx]
           imports == extractImports(importPaths[file], file)
       IN  graph' = [graph EXCEPT
                        !.edges = (file :> imports) @@ @,
                        !.reverseEdges = AddReverseEdges(@, file, imports)]
    /\ fileIdx' = fileIdx + 1
    /\ UNCHANGED <<retryVars, embedVars, chunkVars, passVars, selectVars, searchVars, rankVars, indexVars, files, importPaths, unreadable, pc, asmVars>>

\* line 1854: fs.readFile rejects, nothing catches it, the call rejects
BuildReadFails ==
    /\ pc = "build_loop"
    /\ fileIdx <= Len(files)
    /\ files[fileIdx] \in unreadable
    /\ pc' = "build_failed"
    /\ UNCHANGED <<retryVars, embedVars, chunkVars, passVars, selectVars, searchVars, graph, rankVars, buildVars, indexVars, asmVars>>

\* line 1867
BuildReturn ==
    /\ pc = "build_loop"
    /\ fileIdx > Len(files)
    /\ pc' = "build_done"
    /\ UNCHANGED <<retryVars, embedVars, chunkVars, passVars, selectVars, searchVars, graph, rankVars, buildVars, indexVars, asmVars>>

NextBuild ==
    \/ BuildCreateGraph
    \/ BuildFile
    \/ BuildReadFails
    \/ BuildReturn

SpecBuild == InitBuild /\ [][NextBuild]_vars

--------------------------------------------------------------------------
(* Properties of buildDependencyGraph, checked under SpecBuild.            *)

BuildDone == pc = "build_done"

\* C9: in the returned graph every target of a forward edge and every key
\* and member of reverseEdges is a member of nodes.
C9_EdgeEndpointsAreNodes ==
    BuildDone =>
        /\ \A f \in DOMAIN graph.edges : graph.edges[f] \subseteq graph.nodes
        /\ DOMAIN graph.reverseEdges \subseteq graph.nodes
        /\ \A t \in DOMAIN graph.reverseEdges : graph.reverseEdges[t] \subseteq graph.nodes

\* C14: a file whose read or parse fails is left out and the build goes on:
\* the build never aborts on it, and the graph it returns holds the entry
\* of every other file
C14_FileFailureSkipped ==
    /\ pc # "build_failed"
    /\ BuildDone => \A f \in Range(files) \ unreadable : f \in DOMAIN graph.edges

\* C24: a relative import resolves to the first candidate that is a known
\* file, the candidates being the bare path, then the path with each of
\* .ts, .tsx, .js, .jsx, then with /index.ts and /index.js: the graph holds
\* the edge from the importing file to that candidate.
C24_FirstKnownCandidate ==
    BuildDone =>
        \A file \in DOMAIN graph.edges :
            \A k \in 1..Len(importPaths[file]) :
                LET target == ResolveAgainstFiles(file, importPaths[file][k], Range(files))
                IN  (StartsWith(importPaths[file][k], Dot) /\ target # <<>>)
                        => target \in graph.edges[file]

--------------------------------------------------------------------------
(* Properties of rankFiles, checked under SpecRank.                        *)

Epsilon == <<1, 1000>>

RankDone == pc = "rank_done"

RECURSIVE ReachableFrom(_, _)
\* the graph nodes reachable from the set S along import edges (S included)
ReachableFrom(g, S) ==
    LET next == S \cup (UNION {g.edges[f] : f \in S} \cap g.nodes)
    IN  IF next = S THEN S ELSE ReachableFrom(g, next)

SeedSet == {seedFiles[k] : k \in 1..Len(seedFiles)}

HasImporter(g, node) == Importers(g, node) # {}

\* a damping factor strictly between 0 and 1
ProperDamping == RLess(RZero, damping) /\ RLess(damping, ROne)

\* C2: ranked with no seeds (and a damping strictly between 0 and 1), every
\* score is non-negative and the scores sum to 1 within a small epsilon,
\* whatever the edge set.
C2_ScoresSumToOne ==
    (RankDone /\ seedFiles = <<>> /\ ProperDamping) =>
        /\ \A v \in graph.nodes : RLeq(RZero, scores[v])
        /\ LET total == RSumSet(scores, graph.nodes)
           IN  /\ RLeq(RSub(total, ROne), Epsilon)
               /\ RLeq(RSub(ROne, total), Epsilon)

\* C3: raising the boost of a seed (listing it once more in seedFiles adds
\* another 0.5) strictly raises that seed's final score and lowers the score
\* of no file reachable from it, for a damping strictly between 0 and 1.
C3_BoostMonotone ==
    (RankDone /\ ProperDamping) =>
        \A s \in SeedSet \cap graph.nodes :
            LET more == rankFiles(graph, Append(seedFiles, s), damping, iterations)
            IN  /\ RLess(scores[s], more[s])
                /\ \A r \in ReachableFrom(graph, {s}) : RLeq(scores[r], more[r])

\* C4 as stated: after at least one pass every file with an importer scores
\* strictly higher than every file without one, for any damping.
C4_ImportedOutranksUnimported ==
    (RankDone /\ iterations >= 1) =>
        \A u, v \in graph.nodes :
            (HasImporter(graph, u) /\ ~HasImporter(graph, v))
                => RLess(scores[v], scores[u])

\* C4 amended: the same, for a damping strictly between 0 and 1 (the chain
\* A -> B -> C plus an isolated file, seeds [A], damping 0.85, 20 passes
\* included).
C4_ImportedOutranksUnimportedDamped ==
    (RankDone /\ iterations >= 1 /\ ProperDamping) =>
        \A u, v \in graph.nodes :
            (HasImporter(graph, u) /\ ~HasImporter(graph, v))
                => RLess(scores[v], scores[u])

\* the chain scenario has run its 20 passes and B and C outrank the isolated D
C4_ChainRanked ==
    /\ RankDone
    /\ graph = ChainGraph
    /\ seedFiles = <<A_ts>>
    /\ damping = DefaultDamping
    /\ i = DefaultIterations
    /\ RLess(scores[D_ts], scores[B_ts])
    /\ RLess(scores[D_ts], scores[C_ts])

\* C10: a seed that is no graph node has no effect: the ScoreMap has exactly
\* one entry per node and every node scores as it does without that seed.
C10_AbsentSeedIgnored ==
    RankDone =>
        /\ DOMAIN scores = graph.nodes
        /\ LET present == SelectSeq(seedFiles, LAMBDA s : s \in graph.nodes)
               without == rankFiles(graph, present, damping, iterations)
           IN  \A v \in graph.nodes : scores[v] = without[v]

--------------------------------------------------------------------------
(* embeddings.ts: chunkCode, embedChunks, cosineSimilarity, searchCode     *)

Newline == <<"\n">>
DefaultChunkSize == 1000     \* chunkSize: number = 1000
MinChunkLines == 5           \* currentChunk.length > 5
BatchSize == 100             \* const batchSize = 100
DefaultTopK == 10            \* topK: number = 10

\* line.match(/^(export |async )?(function|class|interface)/)
IsDeclarationLine(line) ==
    LET rest == IF StartsWith(line, <<"e", "x", "p", "o", "r", "t", " ">>)
                THEN SubSeq(line, 8, Len(line))
                ELSE IF StartsWith(line, <<"a", "s", "y", "n", "c", " ">>)
                     THEN SubSeq(line, 7, Len(line))
                     ELSE line
        starts(l) == \/ StartsWith(l, <<"f", "u", "n", "c", "t", "i", "o", "n">>)
                     \/ StartsWith(l, <<"c", "l", "a", "s", "s">>)
                     \/ StartsWith(l, <<"i", "n", "t", "e", "r", "f", "a", "c", "e">>)
    IN  starts(rest) \/ starts(line)

\* a chunkCode that forgets the lines left after the last breakpoint
FlushNothing(file, lines, out, currentChunk, startLine) == out

\* line 2391-2399: the last chunk, when lines are left over
FlushLast(file, lines, out, currentChunk, startLine) ==
    IF Len(currentChunk) > 0
    THEN Append(out, [file |-> file, startLine |-> startLine,
                      endLine |-> Len(lines) - 1,
                      content |-> JoinWith(currentChunk, Newline)])
    ELSE out

RECURSIVE ChunkLoop(_, _, _, _, _, _, _, _)
\* the for loop of chunkCode from line index idx (0-based) on, and the flush
\* of the last chunk after it
ChunkLoop(file, lines, idx, out, currentChunk, startLine, currentLength, chunkSize) ==
    IF idx >= Len(lines)
    THEN FlushLast(file, lines, out, currentChunk, startLine)
    ELSE LET line == lines[idx + 1]
             pushed == Append(currentChunk, line)
             length == currentLength + Len(line)
             isBreakpoint == IsDeclarationLine(line) \/ length >= chunkSize
         IN  IF isBreakpoint /\ Len(pushed) > MinChunkLines
             THEN ChunkLoop(file, lines, idx + 1,
                            Append(out, [file |-> file, startLine |-> startLine,
                                         endLine |-> idx,
                                         content |-> JoinWith(pushed, Newline)]),
                            <<>>, idx + 1, 0, chunkSize)
             ELSE ChunkLoop(file, lines, idx + 1, out, pushed, startLine,
                            length, chunkSize)

\* chunkCode(file, code, chunkSize)
chunkCode(file, code, chunkSize) ==
    ChunkLoop(file, SplitOn(code, "\n"), 0, <<>>, <<>>, 0, 0, chunkSize)

Min(a, b) == IF a < b THEN a ELSE b

\* the number of client.embeddings.create calls embedChunks makes for n chunks
EmbedBatches(n) == (n + BatchSize - 1) \div BatchSize

\* embedChunks(chunks) with the provider answering embed[text] for a text:
\* chunk j of a batch gets response.data[j].embedding
embedChunks(cs, embed) ==
    [k \in 1..Len(cs) |->
        [file |-> cs[k].file, startLine |-> cs[k].startLine,
         endLine |-> cs[k].endLine, content |-> cs[k].content,
         embedding |-> embed[cs[k].content]]]

\* dot, normA, normB of cosineSimilarity
RECURSIVE DotProduct(_, _)
DotProduct(a, b) ==
    IF a = <<>> THEN 0 ELSE a[1] * b[1] + DotProduct(Tail(a), Tail(b))

NaN == <<0, 0>>

\* cosineSimilarity(a, b) = dot / (sqrt(normA) * sqrt(normB)), kept as the
\* rational sign(dot) * dot^2 / (normA * normB), which orders as the quotient
\* does; 0 / 0 is NaN when either vector has zero magnitude
cosineSimilarity(a, b) ==
    LET dot == DotProduct(a, b)
        normA == DotProduct(a, a)
        normB == DotProduct(b, b)
    IN  IF normA = 0 \/ normB = 0 THEN NaN
        ELSE Rat((IF dot < 0 THEN -1 ELSE 1) * dot * dot, normA * normB)

\* the comparator (a, b) => b.score - a.score: negative, zero or positive; a
\* NaN difference is taken as +0 by Array.prototype.sort
CompareScored(a, b) ==
    IF a.score = NaN \/ b.score = NaN THEN 0
    ELSE IF RLess(a.score, b.score) THEN 1
    ELSE IF RLess(b.score, a.score) THEN -1
    ELSE 0

\* the array whose element at position[k] is arr[k]
PlaceAt(arr, position) ==
    [p \in 1..Len(arr) |-> arr[CHOOSE k \in 1..Len(arr) : position[k] = p]]

\* Array.prototype.sort with CompareScored: a stable sort, so an element
\* goes after the elements that compare before it and after the earlier
\* elements that compare equal to it
SortScored(arr) ==
    LET n == Len(arr)
        before(j, k) ==
            LET c == CompareScored(arr[j], arr[k])
            IN  c < 0 \/ (c = 0 /\ j < k)
        position == [k \in 1..n |->
                        1 + Cardinality({j \in 1..n : j # k /\ before(j, k)})]
    IN  PlaceAt(arr, position)

\* searchCode(query, chunks, topK) with the provider answering embed[query]
searchCode(query, cs, topK, embed) ==
    LET queryEmbedding == embed[query]
        scored == [k \in 1..Len(cs) |->
                     [chunk |-> cs[k],
                      score |-> cosineSimilarity(queryEmbedding, cs[k].embedding)]]
        sorted == SortScored(scored)
    IN  [k \in 1..Min(topK, Len(sorted)) |-> sorted[k].chunk]

--------------------------------------------------------------------------
(* JSON.stringify and JSON.parse of the chunk list (CodeIndex.save, load)  *)

Quote == <<"\"">>
Backslash == <<"\\">>
DigitChars == <<"0", "1", "2", "3", "4", "5", "6", "7", "8", "9">>

RECURSIVE JsonEscape(_)
\* the characters of a string as JSON.stringify writes them inside quotes
JsonEscape(s) ==
    IF s = <<>> THEN <<>>
    ELSE (CASE s[1] = "\"" -> <<"\\", "\"">>
            [] s[1] = "\\" -> <<"\\", "\\">>
            [] s[1] = "\n" -> <<"\\", "n">>
            [] OTHER -> <<s[1]>>) \o JsonEscape(Tail(s))

JsonString(s) == Quote \o JsonEscape(s) \o Quote

RECURSIVE NatToText(_)
NatToText(n) ==
    IF n < 10 THEN <<DigitChars[n + 1]>>
    ELSE NatToText(n \div 10) \o <<DigitChars[(n % 10) + 1]>>

\* JsonNumber with the sign lost
JsonNumberUnsigned(n) == NatToText(Abs(n))

\* a number as JSON.stringify writes it
JsonNumber(n) == IF n < 0 THEN <<"-">> \o NatToText(-n) ELSE NatToText(n)

JsonArray(items) == <<"[">> \o JoinWith(items, <<",">>) \o <<"]">>

\* JSON.stringify of one chunk: its own properties in creation order
JsonChunk(c) ==
    <<"{">>
    \o JsonString(<<"f", "i", "l", "e">>) \o <<":">> \o JsonString(c.file) \o <<",">>
    \o JsonString(<<"s", "t", "a", "r", "t", "L", "i", "n", "e">>) \o <<":">> \o JsonNumber(c.startLine) \o <<",">>
    \o JsonString(<<"e", "n", "d", "L", "i", "n", "e">>) \o <<":">> \o JsonNumber(c.endLine) \o <<",">>
    \o JsonString(<<"c", "o", "n", "t", "e", "n", "t">>) \o <<":">> \o JsonString(c.content) \o <<",">>
    \o JsonString(<<"e", "m", "b", "e", "d", "d", "i", "n", "g">>) \o <<":">>
    \o JsonArray([k \in 1..Len(c.embedding) |-> JsonNumber(c.embedding[k])])
    \o <<"}">>

\* JSON.stringify(this.chunks)
JsonStringify(cs) == JsonArray([k \in 1..Len(cs) |-> JsonChunk(cs[k])])

DigitValue(ch) == (CHOOSE d \in 1..10 : DigitChars[d] = ch) - 1
IsDigit(ch) == \E d \in 1..10 : DigitChars[d] = ch

RECURSIVE ScanString(_, _, _)
\* the string literal whose opening quote precedes position p: its value and
\* the position after its closing quote
ScanString(t, p, acc) ==
    IF t[p] = "\"" THEN [val |-> acc, next |-> p + 1]
    ELSE IF t[p] = "\\"
         THEN ScanString(t, p + 2,
                         Append(acc, IF t[p + 1] = "n" THEN "\n" ELSE t[p + 1]))
         ELSE ScanString(t, p + 1, Append(acc, t[p]))

RECURSIVE ScanNat(_, _, _)
ScanNat(t, p, acc) ==
    IF p <= Len(t) /\ IsDigit(t[p])
    THEN ScanNat(t, p + 1, 10 * acc + DigitValue(t[p]))
    ELSE [val |-> acc, next |-> p]

ScanNumber(t, p) ==
    IF t[p] = "-"
    THEN LET n == ScanNat(t, p + 1, 0) IN [val |-> -n.val, next |-> n.next]
    ELSE ScanNat(t, p, 0)

RECURSIVE ScanNumbers(_, _, _)
\* the elements of a number array whose '[' precedes position p
ScanNumbers(t, p, acc) ==
    IF t[p] = "]" THEN [val |-> acc, next |-> p + 1]
    ELSE IF t[p] = "," THEN ScanNumbers(t, p + 1, acc)
    ELSE LET n == ScanNumber(t, p) IN ScanNumbers(t, n.next, Append(acc, n.val))

\* a property value: a string, a number array or a number
ScanValue(t, p) ==
    IF t[p] = "\"" THEN ScanString(t, p + 1, <<>>)
    ELSE IF t[p] = "[" THEN ScanNumbers(t, p + 1, <<>>)
    ELSE ScanNumber(t, p)

RECURSIVE ScanObject(_, _, _)
\* the properties of an object whose '{' precedes position p, by key
ScanObject(t, p, acc) ==
    IF t[p] = "}" THEN [val |-> acc, next |-> p + 1]
    ELSE IF t[p] = "," THEN ScanObject(t, p + 1, acc)
    ELSE LET key == ScanString(t, p + 1, <<>>)
             value == ScanValue(t, key.next + 1)
         IN  ScanObject(t, value.next, (key.val :> value.val) @@ acc)

RECURSIVE ScanObjects(_, _, _)
\* the elements of an object array whose '[' precedes position p
ScanObjects(t, p, acc) ==
    IF t[p] = "]" THEN acc
    ELSE IF t[p] = "," THEN ScanObjects(t, p + 1, acc)
    ELSE LET o == ScanObject(t, p + 1, <<>>)
         IN  ScanObjects(t, o.next, Append(acc, o.val))

\* JSON.parse(data) of a chunk list
JsonParse(data) == ScanObjects(data, 2, <<>>)

\* the parsed object as a CodeChunk
ChunkOfObject(o) ==
    [file |-> o[<<"f", "i", "l", "e">>], startLine |-> o[<<"s", "t", "a", "r", "t", "L", "i", "n", "e">>],
     endLine |-> o[<<"e", "n", "d", "L", "i", "n", "e">>], content |-> o[<<"c", "o", "n", "t", "e", "n", "t">>],
     embedding |-> o[<<"e", "m", "b", "e", "d", "d", "i", "n", "g">>]]

--------------------------------------------------------------------------
(* Project snapshots: per file its path, the specifiers of its import      *)
(* statements, the rest of its code, and the symbols tree-sitter finds.    *)

ImportStatement(specifier) ==
    <<"i", "m", "p", "o", "r", "t", " ", "x", " ", "f", "r", "o", "m", " ", "'">> \o specifier \o <<"'", "\n">>

RECURSIVE ImportStatements(_)
ImportStatements(specifiers) ==
    IF specifiers = <<>> THEN <<>>
    ELSE ImportStatement(Head(specifiers)) \o ImportStatements(Tail(specifiers))

\* the text fs.readFile returns for the file
Code(f) == ImportStatements(f.importPaths) \o f.body

Auth_ts == <<"a", "u", "t", "h", ".", "t", "s">>
Util_ts == <<"u", "t", "i", "l", ".", "t", "s">>

AuthFile ==
    [path |-> Auth_ts, importPaths |-> <<>>,
     body |-> <<"e", "x", "p", "o", "r", "t", " ", "f", "u", "n", "c", "t", "i", "o", "n", " ", "l", "o", "g", "i", "n", "(", ")", " ", "{", "}">>,
     symbols |-> <<[name |-> <<"l", "o", "g", "i", "n">>, exported |-> TRUE,
                    signature |-> <<"e", "x", "p", "o", "r", "t", " ", "f", "u", "n", "c", "t", "i", "o", "n", " ", "l", "o", "g", "i", "n", "(", ")", " ", "{", ".", ".", ".", "}">>]>>]

AFile ==
    [path |-> A_ts, importPaths |-> <<ImportB>>,
     body |-> <<"e", "x", "p", "o", "r", "t", " ", "c", "o", "n", "s", "t", " ", "a", " ", "=", " ", "1">>,
     symbols |-> <<[name |-> <<"a">>, exported |-> TRUE,
                    signature |-> <<"e", "x", "p", "o", "r", "t", " ", "c", "o", "n", "s", "t", " ", "a", " ", "=", " ", "1">>]>>]

BFile ==
    [path |-> B_ts, importPaths |-> <<>>,
     body |-> <<"l", "e", "t", " ", "p", "\n", "l", "e", "t", " ", "q", "\n", "l", "e", "t", " ", "r", "\n", "l", "e", "t", " ", "s", "\n", "l", "e", "t", " ", "t", "\n", "f", "u", "n", "c", "t", "i", "o", "n", " ", "g", "(", ")", " ", "{", "}", "\n", "l", "e", "t", " ", "u">>,
     symbols |-> <<[name |-> <<"g">>, exported |-> FALSE,
                    signature |-> <<"f", "u", "n", "c", "t", "i", "o", "n", " ", "g", "(", ")", " ", "{", ".", ".", ".", "}">>]>>]

LoginProject == <<AuthFile>>
PairProject == <<AFile, BFile>>
Projects == {LoginProject, PairProject}

TaskFixLoginBug == <<"f", "i", "x", " ", "l", "o", "g", "i", "n", " ", "b", "u", "g">>
TaskEditB == <<"e", "d", "i", "t", " ", "b">>
Tasks == {TaskFixLoginBug, TaskEditB}

RECURSIVE Flatten(_)
\* allChunks.push(...chunks) over the files
Flatten(seqs) == IF seqs = <<>> THEN <<>> ELSE Head(seqs) \o Flatten(Tail(seqs))

\* the chunks CodeIndex.index collects before embedding them
ProjectChunks(project) ==
    Flatten([k \in 1..Len(project) |->
                chunkCode(project[k].path, Code(project[k]), DefaultChunkSize)])

\* every text the provider can be asked to embed
EmbeddedTexts ==
    Tasks \cup UNION {{ProjectChunks(p)[k].content : k \in 1..Len(ProjectChunks(p))} :
                        p \in Projects}

Vectors == {<<1, 0>>, <<0, 1>>, <<-1, 0>>}

--------------------------------------------------------------------------
(* CodeIndex as a state machine: index, search, save and load in any order *)

\* this.chunks after load has parsed the file
LoadedChunks(data) ==
    LET parsed == JsonParse(data)
    IN  [k \in 1..Len(parsed) |-> ChunkOfObject(parsed[k])]

InitIndex ==
    /\ chunks = <<>>
    /\ disk = <<>>
    /\ provider \in [EmbeddedTexts -> Vectors]
    /\ embedCalls = 0
    /\ results = <<>>
    /\ savedChunks = <<>>
    /\ lastOp = "none"
    /\ ops = 0
    /\ pc = "index_ready"
    /\ graph = [nodes |-> {}, edges |-> <<>>, reverseEdges |-> <<>>]
    /\ RankIdle
    /\ BuildIdle
    /\ AsmIdle
    /\ RetryIdle
    /\ EmbedIdle
    /\ ChunkIdle
    /\ PassIdle
    /\ SelectIdle
    /\ SearchIdle

\* CodeIndex.index(projectRoot)
IndexProject ==
    /\ pc = "index_ready"
    /\ ops < MaxOps
    /\ \E project \in Projects :
         LET allChunks == ProjectChunks(project)
         IN  /\ chunks' = embedChunks(allChunks, provider)
             /\ embedCalls' = embedCalls + EmbedBatches(Len(allChunks))
    /\ lastOp' = "index"
    /\ ops' = ops + 1
    /\ UNCHANGED <<retryVars, embedVars, chunkVars, passVars, selectVars, searchVars, graph, rankVars, buildVars, disk, provider, results, savedChunks, pc, asmVars>>

\* CodeIndex.search(query, topK)
IndexSearch ==
    /\ pc = "index_ready"
    /\ ops < MaxOps
    /\ \E query \in Tasks, topK \in {1, DefaultTopK} :
         results' = searchCode(query, chunks, topK, provider)
    /\ embedCalls' = embedCalls + 1
    /\ lastOp' = "search"
    /\ ops' = ops + 1
    /\ UNCHANGED <<retryVars, embedVars, chunkVars, passVars, selectVars, searchVars, graph, rankVars, buildVars, chunks, disk, provider, savedChunks, pc, asmVars>>

\* CodeIndex.save(filePath)
IndexSave ==
    /\ pc = "index_ready"
    /\ ops < MaxOps
    /\ disk' = <<JsonStringify(chunks)>>
    /\ savedChunks' = chunks
    /\ lastOp' = "save"
    /\ ops' = ops + 1
    /\ UNCHANGED <<retryVars, embedVars, chunkVars, passVars, selectVars, searchVars, graph, rankVars, buildVars, chunks, provider, embedCalls, results, pc, asmVars>>

\* CodeIndex.load(filePath) of a file that exists
IndexLoad ==
    /\ pc = "index_ready"
    /\ ops < MaxOps
    /\ disk # <<>>
    /\ chunks' = LoadedChunks(disk[1])
    /\ lastOp' = "load"
    /\ ops' = ops + 1
    /\ UNCHANGED <<retryVars, embedVars, chunkVars, passVars, selectVars, searchVars, graph, rankVars, buildVars, disk, provider, embedCalls, results, savedChunks, pc, asmVars>>

\* CodeIndex.load(filePath) of a file that does not exist: readFile rejects
IndexLoadFails ==
    /\ pc = "index_ready"
    /\ ops < MaxOps
    /\ disk = <<>>
    /\ lastOp' = "load_failed"
    /\ ops' = ops + 1
    /\ UNCHANGED <<retryVars, embedVars, chunkVars, passVars, selectVars, searchVars, graph, rankVars, buildVars, chunks, disk, provider, embedCalls, results, savedChunks, pc, asmVars>>

NextIndex ==
    \/ IndexProject
    \/ IndexSearch
    \/ IndexSave
    \/ IndexLoad
    \/ IndexLoadFails

SpecIndex == InitIndex /\ [][NextIndex]_vars

--------------------------------------------------------------------------
(* Properties of CodeIndex, checked under SpecIndex.                       *)

\* C6 (searches): once load has read what save wrote, every search returns
\* the chunks, in the order, that the same search returned on the index that
\* was saved.
C6_ReloadedSearchAgrees ==
    lastOp = "load" =>
        \A query \in Tasks, topK \in {1, 2, DefaultTopK} :
            searchCode(query, chunks, topK, provider)
                = searchCode(query, savedChunks, topK, provider)

\* C6 (provider): the step that loads makes no call to the embedding provider
C6_LoadCallsNoProvider ==
    [][lastOp' = "load" /\ ops' # ops => embedCalls' = embedCalls]_vars

\* C6: after save then load, search returns the same chunks in the same
\* order as before saving, and load itself makes no embedding call.
C6_SaveLoadRoundTrip == []C6_ReloadedSearchAgrees /\ C6_LoadCallsNoProvider

\* a reloaded index of several chunks over which a search ranks the chunks
\* in another order than they are stored
C6_ReloadedAndRanked ==
    /\ lastOp = "load"
    /\ Len(chunks) >= 2
    /\ savedChunks = chunks
    /\ \E query \in Tasks :
         searchCode(query, chunks, DefaultTopK, provider) # chunks

--------------------------------------------------------------------------
(* utils/tokens.ts, repo-map.ts, ranker.ts: the helpers of the assembler   *)

LowerChars == <<"a", "b", "c", "d", "e", "f", "g", "h", "i", "j", "k", "l", "m", "n", "o", "p", "q", "r", "s", "t", "u", "v", "w", "x", "y", "z">>
UpperChars == <<"A", "B", "C", "D", "E", "F", "G", "H", "I", "J", "K", "L", "M", "N", "O", "P", "Q", "R", "S", "T", "U", "V", "W", "X", "Y", "Z">>

LowerChar(ch) ==
    IF \E k \in 1..26 : UpperChars[k] = ch
    THEN LowerChars[CHOOSE k \in 1..26 : UpperChars[k] = ch]
    ELSE ch

\* s.toLowerCase()
ToLowerCase(s) == [k \in 1..Len(s) |-> LowerChar(s[k])]

IsLowerAlnum(ch) == (\E k \in 1..26 : LowerChars[k] = ch) \/ IsDigit(ch)

KeywordMinLength == 3        \* w.length > 3
OverlapThreshold == 2        \* overlap.length > 2
TopFilesLimit == 100         \* getTopFiles(scores, 100)
CharsPerToken == 4           \* ~4 characters per token

\* extractKeywords(text): lower-cased, every character outside [a-z0-9]
\* turned into a space, split on white space, words longer than 3 kept
extractKeywords(text) ==
    LET lower == ToLowerCase(text)
        spaced == [k \in 1..Len(lower) |->
                      IF IsLowerAlnum(lower[k]) THEN lower[k] ELSE " "]
    IN  SelectSeq(SplitOn(spaced, " "), LAMBDA w : Len(w) > KeywordMinLength)

\* estimateTokens(text) = Math.ceil(text.length / 4)
estimateTokens(text) == (Len(text) + CharsPerToken - 1) \div CharsPerToken

\* countTokens(text): the tokenizer's count, taken as the 4-characters-per-
\* token estimate the course gives for it
countTokens(text) == estimateTokens(text)

\* truncateToTokens(text, maxTokens): the longest prefix within maxTokens
truncateToTokens(text, maxTokens) ==
    SubSeq(text, 1, Min(Len(text), CharsPerToken * maxTokens))

\* buildRepoMap: the files that have at least one symbol, in glob order
buildRepoMap(snapshot) == SelectSeq(snapshot, LAMBDA f : Len(f.symbols) > 0)

\* one symbol of formatRepoMap: every line of the signature behind the box
\* bar (written as |) and a space, then a newline
FormatSymbol(symbol) ==
    LET lines == SplitOn(symbol.signature, "\n")
    IN  JoinWith([k \in 1..Len(lines) |-> <<"|", " ">> \o lines[k]], Newline) \o Newline

\* formatRepoMap(map)
formatRepoMap(map) ==
    Flatten([k \in 1..Len(map) |->
        map[k].path \o <<":", "\n">>
        \o Flatten([j \in 1..Len(map[k].symbols) |-> FormatSymbol(map[k].symbols[j])])
        \o Newline])

Paths(snapshot) == [k \in 1..Len(snapshot) |-> snapshot[k].path]

FileAt(snapshot, path) ==
    snapshot[CHOOSE k \in 1..Len(snapshot) : snapshot[k].path = path]

\* buildDependencyGraph(projectRoot, files) when every read succeeds
buildDependencyGraph(snapshot) ==
    GraphOf(Range(Paths(snapshot)),
            [p \in Range(Paths(snapshot)) |->
                extractImports(FileAt(snapshot, p).importPaths, p)])

\* path.basename(f, path.extname(f))
BasenameNoExt(p) ==
    LET base == Basename(p)
    IN  SubSeq(base, 1, Len(base) - Len(Extname(p)))

\* [...new Set(list)]: first occurrences, in order
Unique(list) ==
    LET firsts == {k \in 1..Len(list) : \A j \in 1..(k - 1) : list[j] # list[k]}
        position == [k \in firsts |-> Cardinality({j \in firsts : j <= k})]
    IN  [p \in 1..Cardinality(firsts) |-> list[CHOOSE k \in firsts : position[k] = p]]

\* the seeds selectContextForTask derives: the files whose base name occurs
\* in the task, then the files sharing more than 2 keywords with the task
TaskSeeds(snapshot, taskText) ==
    LET fileList == Paths(snapshot)
        mentionedFiles ==
            SelectSeq(fileList, LAMBDA f :
                Includes(ToLowerCase(taskText), ToLowerCase(BasenameNoExt(f))))
        keywords == extractKeywords(taskText)
        overlap(f) ==
            LET codeKeywords == extractKeywords(Code(FileAt(snapshot, f)))
            IN  SelectSeq(keywords, LAMBDA k : k \in Range(codeKeywords))
        keywordMatches ==
            SelectSeq(fileList, LAMBDA f : Len(overlap(f)) > OverlapThreshold)
    IN  Unique(mentionedFiles \o keywordMatches)

\* the entries of the scores Map in insertion order: the graph nodes as
\* listed, then the seeds that were no node
ScoreEntries(sc, fileList, seeds) ==
    LET keys == Unique(fileList \o seeds)
    IN  [k \in 1..Len(keys) |-> [file |-> keys[k], score |-> sc[keys[k]]]]

\* getTopFiles(scores, n)
getTopFiles(entries, n) ==
    LET sorted == SortScored(entries)
    IN  [k \in 1..Min(n, Len(sorted)) |-> sorted[k].file]

RECURSIVE SelectLoopStop(_, _, _, _, _)
\* SelectLoop ending the walk at the first file that does not fit
SelectLoopStop(snapshot, ranked, selected, totalSoFar, maxTokens) ==
    IF ranked = <<>> THEN selected
    ELSE LET tokens == estimateTokens(Code(FileAt(snapshot, Head(ranked))))
         IN  IF totalSoFar + tokens <= maxTokens
             THEN SelectLoopStop(snapshot, Tail(ranked), Append(selected, Head(ranked)),
                                 totalSoFar + tokens, maxTokens)
             ELSE selected

RECURSIVE SelectLoop(_, _, _, _, _)
\* the loop of selectWithinBudget over the ranked files
SelectLoop(snapshot, ranked, selected, totalSoFar, maxTokens) ==
    IF ranked = <<>> THEN selected
    ELSE LET tokens == estimateTokens(Code(FileAt(snapshot, Head(ranked))))
         IN  IF totalSoFar + tokens <= maxTokens
             THEN SelectLoop(snapshot, Tail(ranked), Append(selected, Head(ranked)),
                             totalSoFar + tokens, maxTokens)
             ELSE SelectLoop(snapshot, Tail(ranked), selected, totalSoFar, maxTokens)

\* selectWithinBudget(scores, projectRoot, maxTokens)
selectWithinBudget(snapshot, entries, maxTokens) ==
    SelectLoop(snapshot, getTopFiles(entries, TopFilesLimit), <<>>, 0, maxTokens)

\* PushPart adding at the front: parts.unshift(part)
PushFront(ps, part) == <<part>> \o ps

\* parts.push(part)
PushPart(ps, part) == Append(ps, part)

MapHeader == <<"#", "#", " ", "R", "e", "p", "o", "s", "i", "t", "o", "r", "y", " ", "S", "t", "r", "u", "c", "t", "u", "r", "e", "\n">>
FilesHeader == <<"\n", "#", "#", " ", "R", "e", "l", "e", "v", "a", "n", "t", " ", "F", "i", "l", "e", "s">>
RelatedHeader == <<"\n", "#", "#", " ", "R", "e", "l", "a", "t", "e", "d", " ", "C", "o", "d", "e">>
\* the fence of a code block, its three backticks written as tildes
Fence == <<"\n", "~", "~", "~", "\n">>
FenceEnd == <<"\n", "~", "~", "~">>

\* the block of one file: heading with its path, fenced content
FileSection(file, content) ==
    <<"\n", "#", "#", "#", " ">> \o file \o Fence \o content \o FenceEnd

\* the block of one search result: heading file:startLine-endLine, fenced content
ChunkSection(chunk) ==
    <<"\n", "#", "#", "#", " ">> \o chunk.file \o <<":">> \o JsonNumber(chunk.startLine) \o <<"-">>
    \o JsonNumber(chunk.endLine) \o Fence \o chunk.content \o FenceEnd

--------------------------------------------------------------------------
(* assembleContext as a state machine: one step per phase and per block    *)

TaskExportLogin == <<"u", "p", "d", "a", "t", "e", " ", "e", "x", "p", "o", "r", "t", " ", "f", "u", "n", "c", "t", "i", "o", "n", " ", "l", "o", "g", "i", "n">>
AsmTasks == Tasks \cup {TaskExportLogin}

\* the budgets tried; the defaults are 2000 / 15000 / 5000 / 25000
Configs ==
    [repoMapTokens : {2, 20},
     relevantFileTokens : {0, 10, 30},
     searchResultTokens : {10},
     maxTotalTokens : {b \in 0..MaxBudget : b % BudgetStep = 0}]

\* two embedding providers: one answers the same vector for every text,
\* one tells the texts of even and odd length apart
AsmProviders ==
    {[t \in EmbeddedTexts \cup AsmTasks |-> <<1, 0>>],
     [t \in EmbeddedTexts \cup AsmTasks |->
        IF t \in AsmTasks \/ Len(t) % 2 = 0 THEN <<1, 0>> ELSE <<0, 1>>]}

InitAssemble ==
    /\ projectRoot \in Projects
    /\ task \in AsmTasks
    /\ config \in Configs
    /\ provider \in AsmProviders
    \* the index passed in: empty, or built from the project
    /\ chunks \in {<<>>, embedChunks(ProjectChunks(projectRoot), provider)}
    /\ parts = <<>>
    /\ totalTokens = 0
    /\ mapText = <<>>
    /\ relevantFiles = <<>>
    /\ searchResults = <<>>
    /\ partIdx = 0
    /\ disk = <<>>
    /\ embedCalls = 0
    /\ results = <<>>
    /\ savedChunks = <<>>
    /\ lastOp = "none"
    /\ ops = 0
    /\ graph = [nodes |-> {}, edges |-> <<>>, reverseEdges |-> <<>>]
    /\ RankIdle
    /\ BuildIdle
    /\ SearchIdle
    /\ SelectIdle
    /\ RetryIdle
    /\ EmbedIdle
    /\ ChunkIdle
    /\ PassIdle
    /\ pc = "asm_call"

\* phase 1: the repo map, truncated to repoMapTokens, under its header
AsmRepoMap ==
    /\ pc = "asm_call"
    /\ LET formatted == formatRepoMap(buildRepoMap(projectRoot))
           text == IF countTokens(formatted) > config.repoMapTokens
                   THEN truncateToTokens(formatted, config.repoMapTokens)
                   ELSE formatted
       IN  /\ mapText' = text
           /\ parts' = PushPart(parts, [phase |-> "map", text |-> MapHeader \o text,
                                        file |-> <<>>, lines |-> <<>>])
           /\ totalTokens' = totalTokens + countTokens(text)
    /\ pc' = "asm_select"
    /\ UNCHANGED <<retryVars, embedVars, chunkVars, passVars, selectVars, searchVars, graph, rankVars, buildVars, indexVars, projectRoot, task, config,
                   relevantFiles, searchResults, partIdx>>

\* phase 2, selection: selectContextForTask builds the graph, derives the
\* seeds, ranks with the default options and walks the ranking within
\* relevantFileTokens; a non-empty selection gets the files header
AsmSelect ==
    /\ pc = "asm_select"
    /\ LET g == buildDependencyGraph(projectRoot)
           seeds == TaskSeeds(projectRoot, task)
           sc == rankFiles(g, seeds, DefaultDamping, DefaultIterations)
           selected == selectWithinBudget(projectRoot,
                           ScoreEntries(sc, Paths(projectRoot), seeds),
                           config.relevantFileTokens)
       IN  /\ graph' = g
           /\ seedFiles' = seeds
           /\ damping' = DefaultDamping
           /\ iterations' = DefaultIterations
           /\ scores' = sc
           /\ relevantFiles' = selected
           /\ parts' = IF Len(selected) > 0
                       THEN PushPart(parts, [phase |-> "files_header",
                                             text |-> FilesHeader, file |-> <<>>, lines |-> <<>>])
                       ELSE parts
    /\ partIdx' = 1
    /\ pc' = "asm_files"
    /\ UNCHANGED <<retryVars, embedVars, chunkVars, passVars, selectVars, searchVars, seedIdx, i, buildVars, indexVars, projectRoot, task, config,
                   totalTokens, mapText, searchResults>>

\* phase 2, one selected file: its block is pushed when it fits in what is
\* left of maxTotalTokens, and skipped otherwise
AsmFile ==
    /\ pc = "asm_files"
    /\ partIdx <= Len(relevantFiles)
    /\ LET file == relevantFiles[partIdx]
           content == Code(FileAt(projectRoot, file))
           fileSection == FileSection(file, content)
           tokens == countTokens(fileSection)
       IN  IF totalTokens + tokens <= config.maxTotalTokens
           THEN /\ parts' = PushPart(parts, [phase |-> "file", text |-> fileSection,
                                             file |-> file, lines |-> <<>>])
                /\ totalTokens' = totalTokens + tokens
           ELSE UNCHANGED <<retryVars, embedVars, chunkVars, passVars, selectVars, searchVars, parts, totalTokens>>
    /\ partIdx' = partIdx + 1
    /\ UNCHANGED <<retryVars, embedVars, chunkVars, passVars, selectVars, searchVars, graph, rankVars, buildVars, indexVars, projectRoot, task, config,
                   mapText, relevantFiles, searchResults, pc>>

\* phase 3, search: index.search(task, 10); non-empty results get the
\* related-code header while the running total is below maxTotalTokens
AsmSearch ==
    /\ pc = "asm_files"
    /\ partIdx > Len(relevantFiles)
    /\ LET found == searchCode(task, chunks, DefaultTopK, provider)
       IN  /\ searchResults' = found
           /\ IF Len(found) > 0 /\ totalTokens < config.maxTotalTokens
              THEN /\ parts' = PushPart(parts, [phase |-> "related_header",
                                                text |-> RelatedHeader, file |-> <<>>, lines |-> <<>>])
                   /\ pc' = "asm_chunks"
              ELSE /\ parts' = parts
                   /\ pc' = "asm_join"
    /\ embedCalls' = embedCalls + 1
    /\ partIdx' = 1
    /\ UNCHANGED <<retryVars, embedVars, chunkVars, passVars, selectVars, searchVars, graph, rankVars, buildVars, chunks, disk, provider, results,
                   savedChunks, lastOp, ops, projectRoot, task, config, totalTokens,
                   mapText, relevantFiles>>

\* phase 3, search while the provider is down or times out:
\* client.embeddings.create rejects inside searchCode, nothing catches it
\* in searchCode, CodeIndex.search or assembleContext, the call rejects
AsmSearchFails ==
    /\ pc = "asm_files"
    /\ partIdx > Len(relevantFiles)
    /\ lastOp' = "search_failed"
    /\ pc' = "asm_rejected"
    /\ UNCHANGED <<retryVars, embedVars, chunkVars, passVars, selectVars, searchVars, graph, rankVars, buildVars, asmVars, chunks, disk,
                   provider, embedCalls, results, savedChunks, ops>>

\* phase 3, one search result
AsmChunk ==
    /\ pc = "asm_chunks"
    /\ partIdx <= Len(searchResults)
    /\ LET chunk == searchResults[partIdx]
           chunkSection == ChunkSection(chunk)
           tokens == countTokens(chunkSection)
       IN  IF totalTokens + tokens <= config.maxTotalTokens
           THEN /\ parts' = PushPart(parts, [phase |-> "chunk", text |-> chunkSection,
                                             file |-> chunk.file,
                                             lines |-> <<chunk.startLine, chunk.endLine>>])
                /\ totalTokens' = totalTokens + tokens
           ELSE UNCHANGED <<retryVars, embedVars, chunkVars, passVars, selectVars, searchVars, parts, totalTokens>>
    /\ partIdx' = partIdx + 1
    /\ UNCHANGED <<retryVars, embedVars, chunkVars, passVars, selectVars, searchVars, graph, rankVars, buildVars, indexVars, projectRoot, task, config,
                   mapText, relevantFiles, searchResults, pc>>

AsmChunksDone ==
    /\ pc = "asm_chunks"
    /\ partIdx > Len(searchResults)
    /\ pc' = "asm_join"
    /\ UNCHANGED <<retryVars, embedVars, chunkVars, passVars, selectVars, searchVars, graph, rankVars, buildVars, indexVars, asmVars>>

\* return parts.join('\n')
AsmReturn ==
    /\ pc = "asm_join"
    /\ pc' = "asm_done"
    /\ UNCHANGED <<retryVars, embedVars, chunkVars, passVars, selectVars, searchVars, graph, rankVars, buildVars, indexVars, asmVars>>

\* the string assembleContext returns
Assembled == JoinWith([k \in 1..Len(parts) |-> parts[k].text], Newline)

NextAssemble ==
    \/ AsmRepoMap
    \/ AsmSelect
    \/ AsmFile
    \/ AsmSearch
    \/ AsmSearchFails
    \/ AsmChunk
    \/ AsmChunksDone
    \/ AsmReturn

SpecAssemble == InitAssemble /\ [][NextAssemble]_vars

--------------------------------------------------------------------------
(* Properties of assembleContext, checked under SpecAssemble.              *)

AsmDone == pc = "asm_done"

\* the part of one phase, in the order pushed
PartsOf(phase) == SelectSeq(parts, LAMBDA p : p.phase = phase)

\* C1: when maxTotalTokens is at least the token count of the (truncated)
\* repo map, the token count of the returned string is at most maxTotalTokens
C1_WithinTotalBudget ==
    (AsmDone /\ config.maxTotalTokens >= countTokens(mapText))
        => countTokens(Assembled) <= config.maxTotalTokens

\* the running total is what the code keeps within the budget
AsmCountedWithinBudget ==
    (AsmDone /\ config.maxTotalTokens >= countTokens(mapText))
        => totalTokens <= config.maxTotalTokens

\* the score findRelevantFiles (the course's keyword matcher) gives a file:
\* 10 per query word its path contains, 5 per (export, query word) match
RelevanceScore(file, query) ==
    LET queryWords == SplitOn(ToLowerCase(query), " ")
        pathLower == ToLowerCase(file.path)
        exports == SelectSeq(file.symbols, LAMBDA sym : sym.exported)
    IN  10 * Cardinality({k \in 1..Len(queryWords) : Includes(pathLower, queryWords[k])})
        + 5 * Cardinality({jk \in (1..Len(exports)) \X (1..Len(queryWords)) :
                  Includes(ToLowerCase(exports[jk[1]].name), queryWords[jk[2]])})

\* the budgets leave room for every file of the project in phase 2
RoomForAllFiles ==
    /\ config.relevantFileTokens
         >= Len(Flatten([k \in 1..Len(projectRoot) |->
                  [n \in 1..estimateTokens(Code(projectRoot[k])) |-> k]]))
    /\ config.maxTotalTokens
         >= countTokens(mapText)
            + Len(Flatten([k \in 1..Len(projectRoot) |->
                  [n \in 1..countTokens(FileSection(projectRoot[k].path,
                                             Code(projectRoot[k]))) |-> k]]))

HasFileBlock(file) ==
    \E k \in 1..Len(parts) :
        /\ parts[k].phase = "file"
        /\ parts[k].text = FileSection(file.path, Code(file))

\* C5: every file whose path or exported symbol name contains a word of the
\* task (case-insensitive) is in the seed list passed to the ranker, and,
\* the budgets leaving room, its full content is a block of the full-files
\* section; so for the single file exporting login and "fix login bug"
C5_KeywordFilesAreSeeds ==
    AsmDone =>
        \A k \in 1..Len(projectRoot) :
            RelevanceScore(projectRoot[k], task) > 0 =>
                /\ projectRoot[k].path \in Range(seedFiles)
                /\ RoomForAllFiles => HasFileBlock(projectRoot[k])

PhaseRank(phase) ==
    CASE phase = "map" -> 1
      [] phase \in {"files_header", "file"} -> 2
      [] phase \in {"related_header", "chunk"} -> 3

\* the ranking selectWithinBudget walked
RankedFiles ==
    getTopFiles(ScoreEntries(scores, Paths(projectRoot), seedFiles), TopFilesLimit)

PositionIn(list, x) == CHOOSE k \in 1..Len(list) : list[k] = x

\* C8: the returned string starts with the structural map, no part of a
\* later phase precedes a part of an earlier phase (map, full files,
\* semantic matches), and the full-file blocks follow the ranking
C8_SectionsInPhaseOrder ==
    AsmDone =>
        /\ StartsWith(Assembled, MapHeader \o mapText)
        /\ parts[1].phase = "map"
        /\ \A j, k \in 1..Len(parts) :
             j < k =>
                /\ PhaseRank(parts[j].phase) <= PhaseRank(parts[k].phase)
                /\ parts[k].phase # "map"
                /\ (parts[j].phase = "file" /\ parts[k].phase = "file")
                     => PositionIn(RankedFiles, parts[j].file)
                          < PositionIn(RankedFiles, parts[k].file)

\* an assembly that returned the map, two file blocks and a semantic match
C8_AllThreePhasesPresent ==
    /\ AsmDone
    /\ Len(PartsOf("file")) >= 2
    /\ Len(PartsOf("chunk")) >= 1
    /\ RankedFiles # Paths(projectRoot)

--------------------------------------------------------------------------
(* searchCode called on its own, on any stored array of chunks             *)

\* the chunks an index may hold, before their embedding
ChunkPool ==
    {[file |-> A_ts, startLine |-> 0, endLine |-> 1, content |-> <<"l", "e", "t", " ", "a">>],
     [file |-> A_ts, startLine |-> 2, endLine |-> 3, content |-> <<"l", "e", "t", " ", "b">>],
     [file |-> B_ts, startLine |-> 0, endLine |-> 1, content |-> <<"l", "e", "t", " ", "c">>]}

\* the embeddings tried, the zero vector among them
SearchVectors == {<<1, 0>>, <<0, 1>>, <<0, 0>>}

\* the arrays of distinct chunks of the pool, in any stored order, each
\* chunk with any embedding
StoredArrays ==
    UNION {{[k \in 1..n |-> [file |-> order[k].file, startLine |-> order[k].startLine,
                             endLine |-> order[k].endLine, content |-> order[k].content,
                             embedding |-> vec[k]]] :
                order \in {o \in [1..n -> ChunkPool] :
                              \A j, k \in 1..n : o[j] = o[k] => j = k},
                vec \in [1..n -> SearchVectors]} :
           n \in 0..Min(MaxStored, Cardinality(ChunkPool))}

\* the arrays holding the elements of an array in some order
Reorderings(arr) ==
    {[k \in 1..Len(arr) |-> arr[p[k]]] :
        p \in {q \in [1..Len(arr) -> 1..Len(arr)] :
                  \A j, k \in 1..Len(arr) : q[j] = q[k] => j = k}}

\* what Array.prototype.sort may leave: the stable order by score, and, the
\* comparator returning NaN for some pair (it is then no consistent
\* comparison), an implementation-defined order
SortOutcomes(arr) ==
    IF \E k \in 1..Len(arr) : arr[k].score = NaN
    THEN Reorderings(arr)
    ELSE {SortScored(arr)}

InitSearch ==
    /\ chunks \in StoredArrays
    /\ queryText = TaskEditB
    /\ provider \in [{TaskEditB} -> SearchVectors]
    /\ limit \in {1, 2, DefaultTopK}
    /\ scoredList = <<>>
    /\ results = <<>>
    /\ disk = <<>>
    /\ embedCalls = 0
    /\ savedChunks = <<>>
    /\ lastOp = "none"
    /\ ops = 0
    /\ graph = [nodes |-> {}, edges |-> <<>>, reverseEdges |-> <<>>]
    /\ RankIdle
    /\ BuildIdle
    /\ AsmIdle
    /\ RetryIdle
    /\ EmbedIdle
    /\ ChunkIdle
    /\ PassIdle
    /\ SelectIdle
    /\ pc = "search_call"

\* the query is embedded and every chunk is scored against it
SearchScore ==
    /\ pc = "search_call"
    /\ LET queryEmbedding == provider[queryText]
       IN  scoredList' = [k \in 1..Len(chunks) |->
                            [chunk |-> chunks[k],
                             score |-> cosineSimilarity(queryEmbedding,
                                                        chunks[k].embedding)]]
    /\ embedCalls' = embedCalls + 1
    /\ pc' = "search_sort"
    /\ UNCHANGED <<retryVars, embedVars, chunkVars, passVars, selectVars, graph, rankVars, buildVars, asmVars, queryText, limit, chunks,
                   disk, provider, results, savedChunks, lastOp, ops>>

\* .sort((a, b) => b.score - a.score).slice(0, topK).map(s => s.chunk)
SearchSort ==
    /\ pc = "search_sort"
    /\ \E sorted \in SortOutcomes(scoredList) :
         results' = [k \in 1..Min(limit, Len(sorted)) |-> sorted[k].chunk]
    /\ pc' = "search_done"
    /\ UNCHANGED <<retryVars, embedVars, chunkVars, passVars, selectVars, graph, rankVars, buildVars, asmVars, searchVars, chunks, disk,
                   provider, embedCalls, savedChunks, lastOp, ops>>

NextSearch ==
    \/ SearchScore
    \/ SearchSort

SpecSearch == InitSearch /\ [][NextSearch]_vars

--------------------------------------------------------------------------
(* Properties of searchCode, checked under SpecSearch.                     *)

SearchDone == pc = "search_done"

IsZeroVector(v) == \A k \in 1..Len(v) : v[k] = 0

\* the similarity the search contract defines: the cosine, and 0 when either
\* vector has zero magnitude
ContractSimilarity(a, b) ==
    IF IsZeroVector(a) \/ IsZeroVector(b) THEN RZero ELSE cosineSimilarity(a, b)

\* the rank of a character in the order strings are compared by
CharRank(ch) ==
    IF ch = "." THEN 0
    ELSE IF IsDigit(ch) THEN 1 + DigitValue(ch)
    ELSE 10 + (CHOOSE k \in 1..26 : LowerChars[k] = ch)

RECURSIVE LexLess(_, _)
\* s < t as strings
LexLess(s, t) ==
    IF t = <<>> THEN FALSE
    ELSE IF s = <<>> THEN TRUE
    ELSE IF s[1] # t[1] THEN CharRank(s[1]) < CharRank(t[1])
    ELSE LexLess(Tail(s), Tail(t))

\* x is not after y: by similarity to the query descending, then by file,
\* then by startLine ascending
OrderedBefore(x, y, queryEmbedding) ==
    LET sx == ContractSimilarity(queryEmbedding, x.embedding)
        sy == ContractSimilarity(queryEmbedding, y.embedding)
    IN  \/ RLess(sy, sx)
        \/ /\ sx = sy
           /\ \/ LexLess(x.file, y.file)
              \/ x.file = y.file /\ x.startLine <= y.startLine

\* C11: the search returns the first topK chunks of the index in the order
\* of similarity descending, equal similarities by (file, startLine)
\* ascending, whatever order the chunks are stored in
C11_TiesByFileAndLine ==
    SearchDone =>
        \E ordered \in Reorderings(chunks) :
            /\ \A j, k \in 1..Len(ordered) :
                 j < k => OrderedBefore(ordered[j], ordered[k], provider[queryText])
            /\ results = SubSeq(ordered, 1, Min(limit, Len(ordered)))

\* C12: a pair with a vector of zero magnitude gets the similarity 0, never
\* NaN, so a chunk with a zero embedding is ranked as having similarity 0
C12_ZeroMagnitudeIsZero ==
    pc \in {"search_sort", "search_done"} =>
        \A k \in 1..Len(scoredList) :
            /\ scoredList[k].score # NaN
            /\ (IsZeroVector(provider[queryText])
                  \/ IsZeroVector(scoredList[k].chunk.embedding))
                 => scoredList[k].score = RZero

\* the provider failed when assembleContext queried the index
ProviderFailed == lastOp = "search_failed"

\* C13: a provider failure during the query of the semantic index does not
\* fail assembleContext: it goes on to return the map and the ranked files,
\* no part of phase 3 among them
C13_ProviderFailureDegrades ==
    ProviderFailed =>
        /\ pc \in {"asm_join", "asm_done"}
        /\ parts # <<>> /\ parts[1].phase = "map"
        /\ PartsOf("related_header") = <<>> /\ PartsOf("chunk") = <<>>

RECURSIVE SeqSum(_)
SeqSum(numbers) == IF numbers = <<>> THEN 0 ELSE Head(numbers) + SeqSum(Tail(numbers))

\* the tokens selectWithinBudget counts for a file, and those assembleContext
\* counts for its block
FileEstimate(path) == estimateTokens(Code(FileAt(projectRoot, path)))
FileBlockTokens(path) == countTokens(FileSection(path, Code(FileAt(projectRoot, path))))

HasBlockOf(path) ==
    \E k \in 1..Len(parts) : parts[k].phase = "file" /\ parts[k].file = path

\* the estimate total of the selected files among the first n ranked ones
SelectedBefore(n) ==
    SeqSum([k \in 1..n |-> IF RankedFiles[k] \in Range(relevantFiles)
                           THEN FileEstimate(RankedFiles[k]) ELSE 0])

\* the running total when the walk reaches relevantFiles[n + 1]
TotalBefore(n) ==
    countTokens(mapText)
    + SeqSum([k \in 1..n |-> IF HasBlockOf(relevantFiles[k])
                             THEN FileBlockTokens(relevantFiles[k]) ELSE 0])

AppendedAfterLoopSkip ==
    /\ AsmDone
    /\ \E j, k \in 1..Len(relevantFiles) :
         j < k /\ ~HasBlockOf(relevantFiles[j]) /\ HasBlockOf(relevantFiles[k])

\* the token counts of the parts a phase pushed
PartTokens(phase) ==
    LET pushed == PartsOf(phase)
    IN  [k \in 1..Len(pushed) |-> countTokens(pushed[k].text)]

\* C16: the file blocks appended in phase 2 total at most relevantFileTokens
\* tokens, counted on the block text as the running total counts them
C16_FileBlocksWithinCap ==
    AsmDone => SeqSum(PartTokens("file")) <= config.relevantFileTokens

\* C17: the semantic-match blocks appended in phase 3 total at most
\* searchResultTokens tokens
C17_ChunkBlocksWithinCap ==
    AsmDone => SeqSum(PartTokens("chunk")) <= config.searchResultTokens

\* C18: phase 3 appends no chunk of a file phase 2 included in full, and no
\* chunk whose line range overlaps a chunk of the same file it appended
C18_NoDuplicateContent ==
    AsmDone =>
        LET matches == PartsOf("chunk")
        IN  /\ \A k \in 1..Len(matches) : ~HasBlockOf(matches[k].file)
            /\ \A j, k \in 1..Len(matches) :
                 (j < k /\ matches[j].file = matches[k].file)
                   => \/ matches[j].lines[2] < matches[k].lines[1]
                      \/ matches[k].lines[2] < matches[j].lines[1]

\* C19: when the truncated map alone exceeds maxTotalTokens, the map is cut
\* further to the budget and nothing of phases 2 and 3 is emitted, their
\* headers included
C19_DegenerateMapOnly ==
    (AsmDone /\ countTokens(mapText) > config.maxTotalTokens) =>
        /\ Len(parts) = 1 /\ parts[1].phase = "map"
        /\ countTokens(Assembled) <= config.maxTotalTokens

--------------------------------------------------------------------------
(* selectWithinBudget called on its own, on projects of up to MaxFiles     *)
(* files with the scores rankFiles gives them                              *)

FileName(k) == <<"f">> \o NatToText(k) \o <<".", "t", "s">>

\* n files f1.ts .. fn.ts of one line each; with chained, f1.ts imports the
\* last file
GeneratedProject(n, chained) ==
    [k \in 1..n |->
        [path |-> FileName(k),
         importPaths |-> IF chained /\ k = 1 /\ n > 1
                         THEN <<<<".", "/", "f">> \o NatToText(n)>> ELSE <<>>,
         body |-> <<"l", "e", "t", " ", "x">>,
         symbols |-> <<>>]]

ProjectSizes == {1, 2, 3, TopFilesLimit, MaxFiles}

InitSelect ==
    /\ \E n \in ProjectSizes, chained \in BOOLEAN :
         /\ projectRoot = GeneratedProject(n, chained)
         /\ graph = buildDependencyGraph(projectRoot)
         /\ scores = rankFiles(graph, <<>>, DefaultDamping, DefaultIterations)
    /\ tokenLimit \in {0, 3, 8 * MaxFiles}
    /\ rankedList = <<>>
    /\ relevantFiles = <<>>
    /\ totalTokens = 0
    /\ partIdx = 0
    /\ seedFiles = <<>>
    /\ damping = DefaultDamping
    /\ iterations = DefaultIterations
    /\ seedIdx = 0
    /\ i = 0
    /\ task = <<>>
    /\ config = <<>>
    /\ parts = <<>>
    /\ mapText = <<>>
    /\ searchResults = <<>>
    /\ BuildIdle
    /\ IndexIdle
    /\ SearchIdle
    /\ PassIdle
    /\ ChunkIdle
    /\ EmbedIdle
    /\ RetryIdle
    /\ pc = "select_call"

\* const ranked = getTopFiles(scores, 100)
SelectRank ==
    /\ pc = "select_call"
    /\ rankedList' = getTopFiles(ScoreEntries(scores, Paths(projectRoot), <<>>),
                                 TopFilesLimit)
    /\ partIdx' = 1
    /\ pc' = "select_loop"
    /\ UNCHANGED <<retryVars, embedVars, chunkVars, passVars, searchVars, graph, rankVars, buildVars, indexVars, tokenLimit,
                   projectRoot, task, config, parts, totalTokens, mapText,
                   relevantFiles, searchResults>>

\* one ranked file: selected when its estimate fits in what is left
SelectFile ==
    /\ pc = "select_loop"
    /\ partIdx <= Len(rankedList)
    /\ LET file == rankedList[partIdx]
           tokens == estimateTokens(Code(FileAt(projectRoot, file)))
       IN  IF totalTokens + tokens <= tokenLimit
           THEN /\ relevantFiles' = Append(relevantFiles, file)
                /\ totalTokens' = totalTokens + tokens
           ELSE UNCHANGED <<retryVars, embedVars, chunkVars, passVars, relevantFiles, totalTokens>>
    /\ partIdx' = partIdx + 1
    /\ UNCHANGED <<retryVars, embedVars, chunkVars, passVars, searchVars, selectVars, graph, rankVars, buildVars, indexVars,
                   projectRoot, task, config, parts, mapText, searchResults, pc>>

\* return selected
SelectReturn ==
    /\ pc = "select_loop"
    /\ partIdx > Len(rankedList)
    /\ pc' = "select_done"
    /\ UNCHANGED <<retryVars, embedVars, chunkVars, passVars, searchVars, selectVars, graph, rankVars, buildVars, indexVars,
                   asmVars>>

NextSelect ==
    \/ SelectRank
    \/ SelectFile
    \/ SelectReturn

SpecSelect == InitSelect /\ [][NextSelect]_vars

--------------------------------------------------------------------------
(* Properties of selectWithinBudget, checked under SpecSelect.             *)

SelectDone == pc = "select_done"

\* every file of the project, by score descending
AllFilesRanked ==
    getTopFiles(ScoreEntries(scores, Paths(projectRoot), <<>>), Len(projectRoot))

\* C20: the walk is over every file of the project by score descending: the
\* selected files are in that order, and a file is left out only if its
\* tokens did not fit in what the selected files ranked above it left,
\* however many files rank above it
C20_EveryFileWalked ==
    SelectDone =>
        LET all == AllFilesRanked
            taken(n) == SeqSum([k \in 1..n |->
                            IF all[k] \in Range(relevantFiles)
                            THEN FileEstimate(all[k]) ELSE 0])
        IN  /\ \A j, k \in 1..Len(relevantFiles) :
                 j < k => RLeq(scores[relevantFiles[k]], scores[relevantFiles[j]])
            /\ \A k \in 1..Len(all) :
                 all[k] \notin Range(relevantFiles)
                   => taken(k - 1) + FileEstimate(all[k]) > tokenLimit

\* C23: the files sorted by score come with equal scores ordered by path in
\* ascending lexical order, in whatever order the files were inserted.
C23_EqualScoresByPath ==
    pc \in {"select_loop", "select_done"} =>
        \A j, k \in 1..Len(rankedList) :
            j < k =>
                \/ RLess(scores[rankedList[k]], scores[rankedList[j]])
                \/ /\ scores[rankedList[k]] = scores[rankedList[j]]
                   /\ LexLess(rankedList[j], rankedList[k])

--------------------------------------------------------------------------
(* rankFiles followed node by node: within a pass the nodes are visited   *)
(* one at a time, in the order the Set graph.nodes yields them, which is  *)
(* the order in which the caller inserted them: any order.                *)

MaxPassIter == 2

\* a pass that reads the score an importer already received in this pass
VisitScoreInPlace(g, sc, newSc, d, node) == NodeScore(g, newSc @@ sc, d, node)

\* the score a visited node receives: scores.get(importer) reads scores,
\* never newScores
VisitScore(g, sc, newSc, d, node) == NodeScore(g, sc, d, node)

\* a loop that makes one pass more
LoopConditionInclusive(k, iters) == k <= iters

\* for (let i = 0; i < iterations; i++)
LoopCondition(k, iters) == k < iters

\* for (const [node, score] of newScores) scores.set(node, score)
CopyScores(sc, newSc) ==
    [p \in DOMAIN sc \cup DOMAIN newSc |->
        IF p \in DOMAIN newSc THEN newSc[p] ELSE sc[p]]

PassDampings == {<<1, 2>>, DefaultDamping}

\* no call is running yet
InitRankPass ==
    /\ graph = [nodes |-> {}, edges |-> <<>>, reverseEdges |-> <<>>]
    /\ RankIdle
    /\ PassIdle
    /\ pc = "rank_idle"
    /\ BuildIdle
    /\ IndexIdle
    /\ AsmIdle
    /\ RetryIdle
    /\ EmbedIdle
    /\ ChunkIdle
    /\ SelectIdle
    /\ SearchIdle

\* the call: any import relation over the node set (self-imports and cycles
\* included), no seed, a seed that is a node or a seed that is none
RankPassCall ==
    /\ pc = "rank_idle"
    /\ \E nodeSet \in RankFileSets :
         \E local \in [nodeSet -> SUBSET nodeSet] :
           graph' = GraphOf(nodeSet, local)
    /\ seedFiles' \in {<<>>, <<A_ts>>, <<Ghost_ts>>}
    /\ damping' \in PassDampings
    /\ iterations' \in 0..MaxPassIter
    /\ pc' = "rank_call"
    /\ UNCHANGED <<retryVars, embedVars, chunkVars, selectVars, searchVars, scores, seedIdx, i, passVars, buildVars, indexVars, asmVars>>

\* line 1942-1943
RankPassBegin ==
    /\ pc = "rank_iter"
    /\ LoopCondition(i, iterations)
    /\ newScores' = <<>>
    /\ visited' = {}
    /\ pc' = "rank_nodes"
    /\ UNCHANGED <<retryVars, embedVars, chunkVars, selectVars, searchVars, graph, rankVars, passes, buildVars, indexVars, asmVars>>

\* line 1945-1957, one node per step
RankVisitNode ==
    /\ pc = "rank_nodes"
    /\ \E node \in graph.nodes \ visited :
         /\ visited' = visited \cup {node}
         /\ newScores' = newScores @@
                      (node :> VisitScore(graph, scores, newScores, damping, node))
    /\ UNCHANGED <<retryVars, embedVars, chunkVars, selectVars, searchVars, graph, rankVars, passes, pc, buildVars, indexVars, asmVars>>

\* line 1960-1962 and the i++ of the loop
RankCopyScores ==
    /\ pc = "rank_nodes"
    /\ visited = graph.nodes
    /\ scores' = CopyScores(scores, newScores)
    /\ i' = i + 1
    /\ passes' = passes + 1
    /\ pc' = "rank_iter"
    /\ UNCHANGED <<retryVars, embedVars, chunkVars, selectVars, searchVars, graph, seedFiles, damping, iterations, seedIdx, newScores, visited, buildVars, indexVars, asmVars>>

\* line 1965
RankPassReturn ==
    /\ pc = "rank_iter"
    /\ ~LoopCondition(i, iterations)
    /\ pc' = "rank_done"
    /\ UNCHANGED <<retryVars, embedVars, chunkVars, selectVars, searchVars, graph, rankVars, passVars, buildVars, indexVars, asmVars>>

NextRankPass ==
    \/ RankPassCall
    \/ RankInitScores
    \/ RankBoostSeed
    \/ RankBoostDone
    \/ RankPassBegin
    \/ RankVisitNode
    \/ RankCopyScores
    \/ RankPassReturn

SpecRankPass == InitRankPass /\ [][NextRankPass]_vars

\* the inner loop takes its next node: the step RankVisitNode, seen on the
\* loop position alone
RankVisitNext ==
    /\ pc = "rank_nodes"
    /\ \E node \in graph.nodes \ visited : visited' = visited \cup {node}

\* rankFiles is synchronous code: once called it runs every step to its
\* return; when it is called is up to the caller
SpecRankPassFair ==
    /\ SpecRankPass
    /\ WF_vars(RankInitScores \/ RankBoostSeed \/ RankBoostDone \/ RankPassBegin
                 \/ RankCopyScores \/ RankPassReturn)
    /\ WF_visited(RankVisitNext)

HasSelfImport(g) == \E f \in g.nodes : f \in g.edges[f]

HasImportCycle(g) ==
    \E f \in g.nodes : f \in ReachableFrom(g, g.edges[f] \cap g.nodes)

RECURSIVE ChainFrom(_, _)
\* the number of edges of the longest import chain that starts at file f
\* (for a graph without import cycles)
ChainFrom(g, f) ==
    LET imported == g.edges[f] \cap g.nodes
        tails == {ChainFrom(g, h) : h \in imported}
    IN  IF imported = {} THEN 0
        ELSE 1 + CHOOSE m \in tails : \A other \in tails : other <= m

LongestChain(g) ==
    LET chains == {ChainFrom(g, f) : f \in g.nodes}
    IN  CHOOSE m \in chains : \A other \in chains : other <= m

--------------------------------------------------------------------------
(* chunkCode on its own: one call on a small file.                        *)

MaxLines == 7

PlainLine == <<"l", "e", "t", " ", "x">>
DeclarationLine == <<"f", "u", "n", "c", "t", "i", "o", "n", " ", "f">>
ExportedClassLine == <<"e", "x", "p", "o", "r", "t", " ", "c", "l", "a", "s", "s", " ", "C">>
CodeLines == {<<>>, PlainLine, DeclarationLine, ExportedClassLine}

\* the chunkSize arguments tried: the length of one plain line, a few lines,
\* and the default, which none of the files reaches
ChunkSizes == {5, 20, DefaultChunkSize}

\* the files tried: 1..MaxLines lines, each empty, plain or a declaration
InitChunk ==
    /\ \E n \in 1..MaxLines :
         \E ls \in [1..n -> CodeLines] : codeText = JoinWith(ls, Newline)
    /\ maxChunkChars \in ChunkSizes
    /\ chunkList = <<>>
    /\ pc = "chunk_call"
    /\ graph = [nodes |-> {}, edges |-> <<>>, reverseEdges |-> <<>>]
    /\ RankIdle
    /\ PassIdle
    /\ BuildIdle
    /\ IndexIdle
    /\ AsmIdle
    /\ RetryIdle
    /\ EmbedIdle
    /\ SelectIdle
    /\ SearchIdle

\* chunkCode(file, code, chunkSize)
ChunkCall ==
    /\ pc = "chunk_call"
    /\ chunkList' = chunkCode(A_ts, codeText, maxChunkChars)
    /\ pc' = "chunk_done"
    /\ UNCHANGED <<retryVars, embedVars, passVars, selectVars, searchVars, graph, rankVars, buildVars, indexVars, asmVars, codeText, maxChunkChars>>

NextChunk == ChunkCall

SpecChunk == InitChunk /\ [][NextChunk]_vars

ChunkDone == pc = "chunk_done"

\* the lines of the file
FileLines == SplitOn(codeText, "\n")

\* lines a..b (0-based, inclusive) of the file
LinesOf(a, b) == SubSeq(FileLines, a + 1, b + 1)

\* C25: the chunks, in order, partition the line indices of the file: the
\* first starts at line 0, each next one at the endLine before + 1, the last
\* ends at the last line, and the content of each is its lines
\* startLine..endLine.
C25_ChunksPartitionLines ==
    ChunkDone =>
        /\ Len(chunkList) >= 1
        /\ chunkList[1].startLine = 0
        /\ \A k \in 1..(Len(chunkList) - 1) :
             chunkList[k + 1].startLine = chunkList[k].endLine + 1
        /\ chunkList[Len(chunkList)].endLine = Len(FileLines) - 1
        /\ \A k \in 1..Len(chunkList) :
             /\ chunkList[k].startLine <= chunkList[k].endLine
             /\ chunkList[k].content =
                    JoinWith(LinesOf(chunkList[k].startLine, chunkList[k].endLine), Newline)

\* a file was cut at a breakpoint and the lines after it were flushed as the
\* last chunk
C25_TrailingChunkFlushed ==
    /\ ChunkDone
    /\ Len(chunkList) = 2
    /\ chunkList[2].endLine = Len(FileLines) - 1
    /\ chunkList[2].startLine = 6

RECURSIVE CharsOf(_)
\* the characters of the lines, line breaks not counted
CharsOf(ls) == IF ls = <<>> THEN 0 ELSE Len(Head(ls)) + CharsOf(Tail(ls))

\* C26: a declaration line that comes after more than 5 lines of the current
\* chunk closes that chunk before itself: the chunk ends at the line before
\* it and the declaration line is the first line of the next chunk, so no
\* chunk holds a declaration line behind more than 5 of its own lines.
C26_DeclarationStartsChunk ==
    ChunkDone =>
        \A k \in 1..Len(chunkList) :
            \A j \in (chunkList[k].startLine + 1)..chunkList[k].endLine :
                IsDeclarationLine(FileLines[j + 1])
                    => j - chunkList[k].startLine <= MinChunkLines

\* C27: a chunk is closed at the first line on which its accumulated
\* characters reach the chunk size, however few lines it holds: no chunk
\* goes on after a line on which it had reached the size.
C27_ClosedWhenSizeReached ==
    ChunkDone =>
        \A k \in 1..Len(chunkList) :
            \A j \in chunkList[k].startLine..(chunkList[k].endLine - 1) :
                CharsOf(LinesOf(chunkList[k].startLine, j)) < maxChunkChars

--------------------------------------------------------------------------
(* embedChunks batch by batch: one embeddings.create call per step.       *)

MaxChunks == 201

\* a slice that takes everything from the start index on
BatchSliceToEnd(cs, from) == SubSeq(cs, from + 1, Len(cs))

\* chunks.slice(i, i + batchSize)
BatchSlice(cs, from) == SubSeq(cs, from + 1, Min(from + BatchSize, Len(cs)))

\* chunk k of the input: one line of the file, its text naming the line
InputChunk(k) ==
    [file |-> A_ts, startLine |-> k - 1, endLine |-> k - 1,
     content |-> <<"l", "i", "n", "e", " ">> \o NatToText(k)]

\* the numbers of chunks tried: around one batch, two batches, and MaxChunks
EmbedSizes ==
    {0, 1, 2, BatchSize - 1, BatchSize, BatchSize + 1, 2 * BatchSize, MaxChunks}

\* the provider's answer to a call with n texts: n vectors, told apart by
\* their position, and between calls by the tag the provider picks
ResponseTags == {1, 2, 3}
ResponseData(tag, n) == [j \in 1..n |-> <<tag, j>>]

InitEmbed ==
    /\ \E n \in EmbedSizes : toEmbed = [k \in 1..n |-> InputChunk(k)]
    /\ embedded = <<>>
    /\ batchStart = 0
    /\ requests = <<>>
    /\ responses = <<>>
    /\ pc = "embed_loop"
    /\ graph = [nodes |-> {}, edges |-> <<>>, reverseEdges |-> <<>>]
    /\ RankIdle
    /\ PassIdle
    /\ BuildIdle
    /\ IndexIdle
    /\ AsmIdle
    /\ RetryIdle
    /\ SelectIdle
    /\ SearchIdle
    /\ ChunkIdle

\* line 2411-2426: one batch is sliced, sent, and its chunks are pushed with
\* the vectors of the response
EmbedBatch ==
    /\ pc = "embed_loop"
    /\ batchStart < Len(toEmbed)
    /\ LET batch == BatchSlice(toEmbed, batchStart)
           texts == [j \in 1..Len(batch) |-> batch[j].content]
       IN  \E tag \in ResponseTags :
             LET data == ResponseData(tag, Len(texts))
             IN  /\ requests' = Append(requests, texts)
                 /\ responses' = Append(responses, data)
                 /\ embedded' = embedded \o
                        [j \in 1..Len(batch) |->
                            [file |-> batch[j].file, startLine |-> batch[j].startLine,
                             endLine |-> batch[j].endLine, content |-> batch[j].content,
                             embedding |-> data[j]]]
    /\ batchStart' = batchStart + BatchSize
    /\ UNCHANGED <<retryVars, chunkVars, passVars, selectVars, searchVars, graph, rankVars, buildVars, indexVars, asmVars, toEmbed, pc>>

\* line 2428
EmbedReturn ==
    /\ pc = "embed_loop"
    /\ batchStart >= Len(toEmbed)
    /\ pc' = "embed_done"
    /\ UNCHANGED <<retryVars, embedVars, chunkVars, passVars, selectVars, searchVars, graph, rankVars, buildVars, indexVars, asmVars>>

NextEmbed == EmbedBatch \/ EmbedReturn

SpecEmbed == InitEmbed /\ [][NextEmbed]_vars

EmbedDone == pc = "embed_done"

\* C28: embedChunks returns as many chunks as it was given, in the same
\* order; the k-th chunk of a batch carries the k-th vector returned for
\* that batch; every provider call receives the texts of one batch, at most
\* 100 of them, and the batches follow one another in the result.
C28_BatchesInOrder ==
    /\ \A c \in 1..Len(requests) :
         /\ Len(requests[c]) <= BatchSize
         /\ Len(requests[c]) >= 1
         /\ \A j \in 1..Len(requests[c]) :
              requests[c][j] = toEmbed[(c - 1) * BatchSize + j].content
    /\ EmbedDone =>
         /\ Len(embedded) = Len(toEmbed)
         /\ \A k \in 1..Len(embedded) :
              LET c == ((k - 1) \div BatchSize) + 1
                  j == ((k - 1) % BatchSize) + 1
              IN  /\ embedded[k].file = toEmbed[k].file
                  /\ embedded[k].startLine = toEmbed[k].startLine
                  /\ embedded[k].endLine = toEmbed[k].endLine
                  /\ embedded[k].content = toEmbed[k].content
                  /\ embedded[k].embedding = responses[c][j]

\* more than two batches were embedded, the provider answering the batches
\* with different vectors
C28_ThreeBatchesEmbedded ==
    /\ EmbedDone
    /\ Len(toEmbed) > 2 * BatchSize
    /\ Len(requests) = 3
    /\ responses[1][1] # responses[2][1]

--------------------------------------------------------------------------
(* llm.ts: chatWithRetry, one attempt per step.                           *)

MaxRetriesTried == 4

DefaultMaxRetries == 3        \* options?.maxRetries ?? 3
RateLimited == 429            \* error?.status === 429
ServerErrorFrom == 500        \* error?.status >= 500
BackoffBase == 1000           \* Math.pow(2, attempt) * 1000, sleep(1000)

\* an error with no status field (a network failure, new Error(...)): the
\* comparisons with 429 and 500 are both false for it
NoStatus == 0

\* the status of the error a chat call rejects with
ErrorStatuses == {400, 401, 404, 429, 499, 500, 503, NoStatus}

\* the error a chat call rejects with
ChatError(status) == [status |-> status, message |-> "chat failed"]

\* new Error('Max retries exceeded')
MaxRetriesExceeded == [status |-> NoStatus, message |-> "Max retries exceeded"]

\* a retry of every error that carries a status
RetriedAnyStatus(status) == status # NoStatus

\* the two branches that continue: status === 429, status >= 500
Retried(status) == status = RateLimited \/ status >= ServerErrorFrom

\* the wait before the next attempt
WaitTime(status, k) ==
    IF status = RateLimited THEN (2 ^ k) * BackoffBase ELSE BackoffBase

InitRetry ==
    /\ maxRetries \in 0..MaxRetriesTried
    /\ attempt = 0
    /\ outcomes = <<>>
    /\ sleeps = <<>>
    /\ thrown = <<>>
    /\ pc = "retry_loop"
    /\ graph = [nodes |-> {}, edges |-> <<>>, reverseEdges |-> <<>>]
    /\ RankIdle
    /\ PassIdle
    /\ BuildIdle
    /\ IndexIdle
    /\ AsmIdle
    /\ SelectIdle
    /\ SearchIdle
    /\ ChunkIdle
    /\ EmbedIdle

\* line 784-785: chat resolves, its text is returned
RetrySucceeds ==
    /\ pc = "retry_loop"
    /\ attempt < maxRetries
    /\ outcomes' = Append(outcomes, [ok |-> TRUE, status |-> NoStatus])
    /\ pc' = "retry_returned"
    /\ UNCHANGED <<embedVars, chunkVars, passVars, selectVars, searchVars, graph, rankVars, buildVars, indexVars, asmVars, maxRetries, attempt, sleeps, thrown>>

\* line 786-799: chat rejects with an error that is retried after a wait
RetryFailsAndWaits ==
    /\ pc = "retry_loop"
    /\ attempt < maxRetries
    /\ \E status \in ErrorStatuses :
         /\ Retried(status)
         /\ outcomes' = Append(outcomes, [ok |-> FALSE, status |-> status])
         /\ sleeps' = Append(sleeps, WaitTime(status, attempt))
    /\ attempt' = attempt + 1
    /\ UNCHANGED <<embedVars, chunkVars, passVars, selectVars, searchVars, graph, rankVars, buildVars, indexVars, asmVars, maxRetries, thrown, pc>>

\* line 786-803: chat rejects with any other error, which is thrown on
RetryRethrows ==
    /\ pc = "retry_loop"
    /\ attempt < maxRetries
    /\ \E status \in ErrorStatuses :
         /\ ~Retried(status)
         /\ outcomes' = Append(outcomes, [ok |-> FALSE, status |-> status])
         /\ thrown' = <<ChatError(status)>>
    /\ pc' = "retry_thrown"
    /\ UNCHANGED <<embedVars, chunkVars, passVars, selectVars, searchVars, graph, rankVars, buildVars, indexVars, asmVars, maxRetries, attempt, sleeps>>

\* line 807: the loop has ended
RetryExhausted ==
    /\ pc = "retry_loop"
    /\ attempt >= maxRetries
    /\ thrown' = <<MaxRetriesExceeded>>
    /\ pc' = "retry_thrown"
    /\ UNCHANGED <<embedVars, chunkVars, passVars, selectVars, searchVars, graph, rankVars, buildVars, indexVars, asmVars, maxRetries, attempt, outcomes, sleeps>>

NextRetry ==
    \/ RetrySucceeds
    \/ RetryFailsAndWaits
    \/ RetryRethrows
    \/ RetryExhausted

SpecRetry == InitRetry /\ [][NextRetry]_vars

\* a transient failure: rate limit (429) or server error (>= 500)
TransientFailure(o) == ~o.ok /\ (o.status = 429 \/ o.status >= 500)

RetryEnded == pc \in {"retry_returned", "retry_thrown"}

\* C29: the wrapped call is attempted at most maxRetries times in all; an
\* attempt is followed by another only when it failed transiently (429 or
\* >= 500); a failure that is not transient is thrown on at once, with no
\* further attempt; and when all maxRetries attempts failed transiently the
\* call ends with the error 'Max retries exceeded'.
C29_BoundedRetries ==
    /\ Len(outcomes) <= maxRetries
    /\ \A k \in 1..(Len(outcomes) - 1) : TransientFailure(outcomes[k])
    /\ \A k \in 1..Len(outcomes) :
         (~outcomes[k].ok /\ ~TransientFailure(outcomes[k]))
            => /\ k = Len(outcomes)
               /\ pc = "retry_thrown"
               /\ thrown = <<ChatError(outcomes[k].status)>>
    /\ (RetryEnded /\ \A k \in 1..Len(outcomes) : TransientFailure(outcomes[k]))
            => /\ Len(outcomes) = maxRetries
               /\ thrown = <<MaxRetriesExceeded>>
    /\ (pc = "retry_returned") => (outcomes # <<>> /\ outcomes[Len(outcomes)].ok)

\* the default three attempts were made, a rate limit and two server errors,
\* and the call ended with 'Max retries exceeded'
C29_AllAttemptsTransient ==
    /\ pc = "retry_thrown"
    /\ maxRetries = DefaultMaxRetries
    /\ Len(outcomes) = DefaultMaxRetries
    /\ outcomes[1].status = 429
    /\ outcomes[2].status = 503
    /\ thrown = <<MaxRetriesExceeded>>

==========================================================================
